---- MODULE Spec2Model ----
(***************************************************************************)
(* AzureAutoHibernate: the idle-decision engine (internal/monitor/idle.go), *)
(* the orchestrator loop (package service: AutoHibernateService) and the    *)
(* notifier manager (package service: NotifierManager).                     *)
(*                                                                          *)
(* Time is counted in whole seconds.  The code reads a stored instant t     *)
(* only through now.Sub(t), so every stored instant is kept as its age:     *)
(* the seconds between it and the current instant.  An instant stored as    *)
(* "now" has age 0, the sleep of the monitor loop adds the elapsed time to  *)
(* every age, and an age is followed up to a bound that lies beyond the     *)
(* duration it is compared with.  A nullable instant (a pointer to a        *)
(* time.Time, or a time.Time whose zero value means "never") is a sequence: *)
(* <<>> is nil and <<a>> the instant of age a.  The result of a fallible    *)
(* query is a sequence as well: <<>> is the error and <<v>> the value.      *)
(***************************************************************************)
EXTENDS Integers, Sequences, FiniteSets, TLC

\* ------------------------------------------------------------------ bounds
MaxSessions == 2        \* user sessions the host can have (ids 1..MaxSessions)
MaxMinutes == 1         \* every configured minute count is in 0..MaxMinutes
MaxFaults == 1          \* failing host answers during one operation of the notifier manager

MaxHintMinutes == 2     \* the idle thresholds of the interval calculation are in 0..MaxHintMinutes
MaxFormatSeconds == 135 \* the longest duration formatted, in seconds
MaxListings == 3        \* calls of GetActiveSessions by checkSessions that return a list
\* ------------------------------------------------------- program constants
Minute == 60
recentActivityThreshold == 30
notificationThrottleDuration == 30
warningCheckInterval == 5
minCheckInterval == 5
defaultCheckMinutes == 5
PBT_APMRESUMEAUTOMATIC == 18
PBT_APMRESUMESUSPEND == 7
\* a power event of any other type
PBT_OTHER == PBT_APMRESUMEAUTOMATIC + PBT_APMRESUMESUSPEND

\* --------------------------------------------------------------- optionals
Nil == <<>>
Some(v) == <<v>>
Val(p) == p[1]

Min2(a, b) == IF a < b THEN a ELSE b

\* An age is followed up to a bound that lies beyond the duration it is
\* compared with: Beyond(threshold) for an age compared with threshold.
Beyond(threshold) == threshold + warningCheckInterval

\* beyond every duration of the model
Horizon == Beyond(MaxMinutes * Minute)

\* the age of an instant after d more seconds
Older(a, d, bound) == Min2(a + d, bound)

\* now.Sub(t)
Elapsed(t) == Val(t)

\* a nullable instant after d more seconds
AdvanceOpt(t, d, bound) == IF t = Nil THEN Nil ELSE Some(Older(Val(t), d, bound))

\* the longest duration of a set instead of the shortest
SetMax(S) == CHOOSE x \in S : \A y \in S : x >= y

SetMin(S) == CHOOSE x \in S : \A y \in S : x <= y

\* ------------------------------------------------------------ enumerations
IdleConditionNone == "None"
IdleConditionNoUsers == "NoUsers"
IdleConditionAllDisconnected == "AllDisconnected"
IdleConditionInactiveUser == "InactiveUser"

WarningStateNone == "None"
WarningStateActive == "Active"
WarningStateCanceled == "Canceled"

WTSActive == "Active"
WTSDisconnected == "Disconnected"
WTSAbsent == "Absent"

SessionIds == 1..MaxSessions

VARIABLES
    config,                 \* config.Config: the five minute counts
    state,                  \* IdleMonitor.state (IdleState)
    resumeAt,               \* IdleMonitor.resumeAt
    svcResumeAt,            \* AutoHibernateService.resumeAt
    inWarningMode,          \* monitorLoop's inWarningMode
    lastNotificationTime,   \* AutoHibernateService.lastNotificationTime (<<>> is the zero time)
    nextCheckDuration,      \* the interval monitorLoop sleeps before the next cycle
    hasNotifierManager,     \* AutoHibernateService.notifierManager != nil
    notifiers,              \* NotifierManager.notifiers: session id -> NotifierProcess
    startupNotificationSent,\* NotifierManager.startupNotificationSent
    sessionsMonitored,      \* NotifierManager.monitorSessions has run its initial check
    snapshot,               \* what the host answered in the last cycle (sessions, idle times, uptime)
    checked,                \* what the last cycle's Check returned, and the engine state it left
    calls,                  \* the calls the last operation made on its collaborators, in order
    caller,                 \* the operation that made them
    exchange,               \* pipe.Server.SendCommand: its position, and the relay's end of the pipe
    shutdown,               \* Execute's shutdown sequence: "running", "stopping", "stopped"
    inFlight,               \* a monitor cycle had begun when the stop signal came
    loopEntered,            \* monitorLoop has begun its first cycle
    processes,              \* the relay processes of the host, per session: those running and the open handles (followed by checkSessionsAlone)
    localSessions,          \* checkSessions' local variable sessions in each goroutine that calls it, with the call's position
    listings,               \* the calls of monitor.GetActiveSessions that returned a list: their number and the latest list
    mu,                     \* NotifierManager.mu: the writer and the readers that hold it
    threads                 \* the goroutines: the operation each one is in and its position

vars == <<config, state, resumeAt, svcResumeAt, inWarningMode, lastNotificationTime,
          nextCheckDuration, hasNotifierManager, notifiers, startupNotificationSent,
          sessionsMonitored, snapshot, checked, calls, caller,
          exchange, shutdown, inFlight, loopEntered, processes, localSessions,
          listings, mu, threads>>

\* the variables of the exchange on the pipe, of the shutdown and of the lock
pipeVars == <<exchange>>
stopVars == <<shutdown, inFlight, loopEntered>>
lockVars == <<mu, threads>>
hostVars == <<processes, localSessions, listings>>

\* -------------------------------------------------------- IdleMonitor fields
noUsersThreshold == config.NoUsersIdleMinutes * Minute
allDisconnectedThreshold == config.AllDisconnectedIdleMinutes * Minute
inactiveUserThreshold == config.InactiveUserIdleMinutes * Minute
warningPeriod == config.InactiveUserWarningMinutes * Minute
minimumUptimeThreshold == config.MinimumUptimeMinutes * Minute

\* Config.Validate: the five counts are non-negative and one idle threshold is > 0
Validate(c) ==
    /\ c.NoUsersIdleMinutes >= 0
    /\ c.AllDisconnectedIdleMinutes >= 0
    /\ c.InactiveUserIdleMinutes >= 0
    /\ c.InactiveUserWarningMinutes >= 0
    /\ c.MinimumUptimeMinutes >= 0
    /\ ~(c.NoUsersIdleMinutes = 0 /\ c.AllDisconnectedIdleMinutes = 0
         /\ c.InactiveUserIdleMinutes = 0)

Configs ==
    { c \in [NoUsersIdleMinutes : 0..MaxMinutes,
             AllDisconnectedIdleMinutes : 0..MaxMinutes,
             InactiveUserIdleMinutes : 0..MaxMinutes,
             InactiveUserWarningMinutes : 0..MaxMinutes,
             MinimumUptimeMinutes : 0..MaxMinutes] : Validate(c) }

\* ------------------------------------------------------- the host's answers
\* A snapshot is what the session source answers during one cycle:
\*   sessions[s]  the WTS state of session s (GetActiveSessions lists the Active
\*                and the Disconnected ones),
\*   idle[s]      GetSessionIdleTime(s): <<>> on error, <<seconds>> otherwise,
\*   uptime       GetSystemUptime(): <<>> on error, <<seconds>> otherwise,
\*   listErr      GetActiveSessions failed.
IdleTimes ==
    { recentActivityThreshold - 5, recentActivityThreshold, inactiveUserThreshold }

IdleReads(st) == IF st = WTSActive THEN {Nil} \cup { Some(t) : t \in IdleTimes } ELSE {Nil}

StateRank(w) == IF w = WTSActive THEN 2 ELSE IF w = WTSDisconnected THEN 1 ELSE 0

\* The sessions are interchangeable, so the tables are listed up to a renaming
\* of the session ids: connected sessions first, then disconnected ones.
SessionTables ==
    { tab \in [SessionIds -> {WTSAbsent, WTSActive, WTSDisconnected}] :
        \A s, t \in SessionIds : s < t => StateRank(tab[s]) >= StateRank(tab[t]) }

NoSnapshot == [sessions |-> [s \in SessionIds |-> WTSAbsent],
               idle |-> [s \in SessionIds |-> Nil],
               uptime |-> Nil, listErr |-> FALSE]

\* GetActiveSessions: the sessions of the snapshot, as SessionInfo values
SessionInfo(snap, s) ==
    [SessionId |-> s,
     IsActive |-> snap.sessions[s] = WTSActive,
     IsDisconnected |-> snap.sessions[s] = WTSDisconnected]

GetActiveSessions(snap) ==
    { SessionInfo(snap, s) : s \in { x \in SessionIds : snap.sessions[x] # WTSAbsent } }

GetSessionIdleTime(snap, s) == snap.idle[s]

GetSystemUptime(snap) == snap.uptime

\* ------------------------------------------------------------- IdleMonitor
\* NewIdleMonitor: the engine state right after construction
NewIdleState ==
    [NoUsersIdleSince |-> Nil,
     AllDisconnectedSince |-> Nil,
     LastActivityTime |-> 0,
     CurrentSessions |-> {},
     IdleCondition |-> IdleConditionNone,
     WarningIssuedAt |-> Nil,
     WarningReason |-> <<>>,
     WarningState |-> WarningStateNone]

\* a result that asks for hibernation whenever it asks for a warning
CheckResultBothFlags(cond, warn, hib, reason, remaining) ==
    [Condition |-> cond, ShouldWarn |-> warn, ShouldHibernate |-> hib \/ warn,
     Reason |-> reason, TimeRemaining |-> remaining]

CheckResult(cond, warn, hib, reason, remaining) ==
    [Condition |-> cond, ShouldWarn |-> warn, ShouldHibernate |-> hib,
     Reason |-> reason, TimeRemaining |-> remaining]

\* fmt.Sprintf("... for over %d minutes", int(threshold.Minutes()))
IdleReason(text, threshold) == <<text, threshold \div Minute>>

\* a reset of the warning that leaves WarningState as it is
resetWarningKeepState(st) ==
    [st EXCEPT !.IdleCondition = IdleConditionNone,
               !.WarningIssuedAt = Nil,
               !.WarningReason = <<>>,
               !.NoUsersIdleSince = Nil,
               !.AllDisconnectedSince = Nil]

\* resetWarning
resetWarning(st) ==
    [st EXCEPT !.IdleCondition = IdleConditionNone,
               !.WarningIssuedAt = Nil,
               !.WarningReason = <<>>,
               !.WarningState = WarningStateNone,
               !.NoUsersIdleSince = Nil,
               !.AllDisconnectedSince = Nil]

\* the stored instants of the engine after d more seconds
AdvanceState(st, d) ==
    [st EXCEPT !.NoUsersIdleSince = AdvanceOpt(@, d, Beyond(noUsersThreshold)),
               !.AllDisconnectedSince = AdvanceOpt(@, d, Beyond(allDisconnectedThreshold)),
               !.WarningIssuedAt = AdvanceOpt(@, d, Beyond(warningPeriod)),
               !.LastActivityTime = Older(@, d, Horizon)]

\* a reset that clears the timers and the warning and keeps the rest
ResetTimersOnly(st) ==
    [st EXCEPT !.IdleCondition = IdleConditionNone,
               !.WarningIssuedAt = Nil,
               !.WarningReason = <<>>,
               !.WarningState = WarningStateNone,
               !.NoUsersIdleSince = Nil,
               !.AllDisconnectedSince = Nil]

\* Reset
Reset(st) ==
    [st EXCEPT !.IdleCondition = IdleConditionNone,
               !.WarningIssuedAt = Nil,
               !.WarningReason = <<>>,
               !.WarningState = WarningStateNone,
               !.NoUsersIdleSince = Nil,
               !.AllDisconnectedSince = Nil,
               !.LastActivityTime = 0,
               !.CurrentSessions = {}]

\* a recent-input test that misses the last five seconds before the threshold
RecentActivityNarrow(sessionIdleTime) ==
    sessionIdleTime < recentActivityThreshold - warningCheckInterval

\* the recent-input test of shouldCancelWarning
RecentActivity(sessionIdleTime) == sessionIdleTime < recentActivityThreshold

\* shouldCancelWarning
shouldCancelWarning(st, snap, sessions, hasUsers, allDisconnected) ==
    IF st.WarningState # WarningStateActive THEN FALSE
    ELSE CASE st.IdleCondition = IdleConditionNoUsers -> hasUsers
           [] st.IdleCondition = IdleConditionAllDisconnected -> ~allDisconnected
           [] st.IdleCondition = IdleConditionInactiveUser ->
                /\ hasUsers
                /\ ~allDisconnected
                /\ \E session \in sessions :
                      /\ ~session.IsDisconnected
                      /\ GetSessionIdleTime(snap, session.SessionId) # Nil
                      /\ RecentActivity(Val(GetSessionIdleTime(snap, session.SessionId)))
           [] OTHER -> FALSE

\* effective uptime: the minimum of the system uptime and the time since resume
EffectiveUptime(systemUptime, timeSinceResume) ==
    IF timeSinceResume < systemUptime THEN timeSinceResume ELSE systemUptime

\* a minimum-uptime test that lets the boundary pass
UptimeBelow(effectiveUptime) == effectiveUptime < minimumUptimeThreshold

\* the minimum-uptime test of Check
UptimeNotExceeded(effectiveUptime) == effectiveUptime <= minimumUptimeThreshold

\* Check returns early because of the minimum-uptime gate (rAt is the age of
\* m.resumeAt, that is now.Sub(m.resumeAt))
GateSuppresses(snap, rAt) ==
    /\ minimumUptimeThreshold > 0
    /\ GetSystemUptime(snap) # Nil
    /\ UptimeNotExceeded(EffectiveUptime(Val(GetSystemUptime(snap)), rAt))

\* a no-users comparison that is late by one comparison
NoUsersThresholdMetLate(idleDuration) == idleDuration > noUsersThreshold

\* the threshold comparisons of Check (conditions 1, 2 and 3)
NoUsersThresholdMet(idleDuration) == idleDuration >= noUsersThreshold
AllDisconnectedThresholdMet(idleDuration) == idleDuration >= allDisconnectedThreshold
InactiveUserThresholdMet(minIdleDuration) == minIdleDuration >= inactiveUserThreshold

\* an expiry test that is late by one comparison
WarningExpiredLate(warnDuration) == warnDuration > warningPeriod

\* a warning period taken for expired one check interval early
WarningExpiredEarly(warnDuration) == warnDuration + warningCheckInterval >= warningPeriod

\* the expiry test of the warning period
WarningExpired(warnDuration) == warnDuration >= warningPeriod

\* a warning period for every condition
WarningAlways(idleCondition) == warningPeriod > 0

\* the branch of Check that grants a warning period
WarningApplies(idleCondition) ==
    idleCondition = IdleConditionInactiveUser /\ warningPeriod > 0

\* Check, condition 1: [st, cond, reason]
CheckNoUsers(st, hasUsers) ==
    IF ~hasUsers
    THEN IF st.NoUsersIdleSince = Nil
         THEN [st |-> [st EXCEPT !.NoUsersIdleSince = Some(0)],
               cond |-> IdleConditionNone, reason |-> <<>>]
         ELSE IF NoUsersThresholdMet(Elapsed(st.NoUsersIdleSince))
              THEN [st |-> st, cond |-> IdleConditionNoUsers,
                    reason |-> IdleReason("No users logged in for over %d minutes",
                                          noUsersThreshold)]
              ELSE [st |-> st, cond |-> IdleConditionNone, reason |-> <<>>]
    ELSE [st |-> [st EXCEPT !.NoUsersIdleSince = Nil],
          cond |-> IdleConditionNone, reason |-> <<>>]

\* condition 2 evaluated whatever condition 1 found, users or no users
CheckAllDisconnectedUnordered(c, hasUsers, allDisconnected) ==
    IF allDisconnected
    THEN IF c.st.AllDisconnectedSince = Nil
         THEN [c EXCEPT !.st.AllDisconnectedSince = Some(0)]
         ELSE IF c.st.AllDisconnectedSince # Nil
                 /\ Val(c.st.AllDisconnectedSince) >= allDisconnectedThreshold
              THEN [c EXCEPT !.cond = IdleConditionAllDisconnected,
                             !.reason = <<"All users disconnected for over %d minutes",
                                          allDisconnectedThreshold \div Minute>>]
              ELSE c
    ELSE [c EXCEPT !.st.AllDisconnectedSince = Nil]

\* Check, condition 2
CheckAllDisconnected(c, hasUsers, allDisconnected) ==
    IF c.cond = IdleConditionNone /\ allDisconnected /\ hasUsers
    THEN IF c.st.AllDisconnectedSince = Nil
         THEN [c EXCEPT !.st.AllDisconnectedSince = Some(0)]
         ELSE IF AllDisconnectedThresholdMet(Elapsed(c.st.AllDisconnectedSince))
              THEN [c EXCEPT !.cond = IdleConditionAllDisconnected,
                             !.reason = IdleReason("All users disconnected for over %d minutes",
                                                   allDisconnectedThreshold)]
              ELSE c
    ELSE IF ~allDisconnected
         THEN [c EXCEPT !.st.AllDisconnectedSince = Nil]
         ELSE c

\* the idle durations Check could read for the connected sessions
ReadableIdleTimes(snap, sessions) ==
    { Val(GetSessionIdleTime(snap, session.SessionId)) :
        session \in { x \in sessions : /\ ~x.IsDisconnected
                                       /\ GetSessionIdleTime(snap, x.SessionId) # Nil } }

\* Check, condition 3 (lastInputTime := now.Add(-minIdleDuration) has age
\* minIdleDuration)
CheckInactiveUser(c, snap, sessions, hasUsers, allDisconnected) ==
    LET hasActiveSessions == hasUsers /\ ~allDisconnected
                             /\ \E session \in sessions : ~session.IsDisconnected
        idles == ReadableIdleTimes(snap, sessions)
    IN  IF c.cond = IdleConditionNone /\ hasActiveSessions
        THEN IF idles = {}
             THEN c
             ELSE LET minIdleDuration == SetMin(idles)
                      c1 == [c EXCEPT !.st.LastActivityTime = minIdleDuration]
                  IN  IF InactiveUserThresholdMet(minIdleDuration)
                      THEN [c1 EXCEPT !.cond = IdleConditionInactiveUser,
                                      !.reason = IdleReason("No activity detected for over %d minutes",
                                                            inactiveUserThreshold)]
                      ELSE c1
        ELSE c

\* Check, from "Idle condition met" on: the warning period or hibernation
Decide(st, idleCondition, idleReason) ==
    LET st1 == [st EXCEPT !.IdleCondition = idleCondition]
    IN  IF WarningApplies(idleCondition)
        THEN IF st1.WarningIssuedAt = Nil
             THEN [st |-> [st1 EXCEPT !.WarningIssuedAt = Some(0),
                                      !.WarningReason = idleReason,
                                      !.WarningState = WarningStateActive],
                   res |-> CheckResult(idleCondition, TRUE, FALSE, idleReason, warningPeriod)]
             ELSE LET warnDuration == Elapsed(st1.WarningIssuedAt)
                  IN  IF WarningExpired(warnDuration)
                      THEN [st |-> st1,
                            res |-> CheckResult(idleCondition, FALSE, TRUE, idleReason, 0)]
                      ELSE [st |-> st1,
                            res |-> CheckResult(idleCondition, TRUE, FALSE, idleReason,
                                                warningPeriod - warnDuration)]
        ELSE [st |-> st1, res |-> CheckResult(idleCondition, FALSE, TRUE, idleReason, 0)]

\* Check: [st: the engine state afterwards, res: the CheckResult, err: the error
\* return, gated: the minimum-uptime gate returned early, canceled: the
\* warning was canceled (WarningState went through Canceled)]
Check(st, snap, rAt) ==
    IF snap.listErr
    THEN [st |-> st, res |-> CheckResult(IdleConditionNone, FALSE, FALSE, <<>>, 0),
          err |-> TRUE, gated |-> FALSE, canceled |-> FALSE, ran |-> TRUE]
    ELSE
    LET sessions == GetActiveSessions(snap)
        st0 == [st EXCEPT !.CurrentSessions = sessions]
    IN  IF GateSuppresses(snap, rAt)
        THEN [st |-> st0,
              res |-> CheckResult(IdleConditionNone, FALSE, FALSE, <<>>,
                        minimumUptimeThreshold
                          - EffectiveUptime(Val(GetSystemUptime(snap)), rAt)),
              err |-> FALSE, gated |-> TRUE, canceled |-> FALSE, ran |-> TRUE]
        ELSE
        LET hasUsers == sessions # {}
            allDisconnected == \A session \in sessions : session.IsDisconnected
            cancel == shouldCancelWarning(st0, snap, sessions, hasUsers, allDisconnected)
            st1 == IF cancel
                   THEN resetWarning([st0 EXCEPT !.WarningState = WarningStateCanceled])
                   ELSE st0
            c1 == CheckNoUsers(st1, hasUsers)
            c2 == CheckAllDisconnected(c1, hasUsers, allDisconnected)
            c3 == CheckInactiveUser(c2, snap, sessions, hasUsers, allDisconnected)
        IN  IF c3.cond = IdleConditionNone
            THEN [st |-> IF c3.st.WarningIssuedAt # Nil THEN resetWarning(c3.st) ELSE c3.st,
                  res |-> CheckResult(IdleConditionNone, FALSE, FALSE, <<>>, 0),
                  err |-> FALSE, gated |-> FALSE, canceled |-> cancel, ran |-> TRUE]
            ELSE LET d == Decide(c3.st, c3.cond, c3.reason)
                 IN  [st |-> d.st, res |-> d.res,
                      err |-> FALSE, gated |-> FALSE, canceled |-> cancel, ran |-> TRUE]

\* a fold that keeps the condition it saw last instead of the nearest one
AccumulateLast(acc, timeUntil) ==
    [minTimeUntil |-> IF timeUntil < 0 THEN 0 ELSE timeUntil,
     hasActiveCondition |-> TRUE]

\* GetTimeUntilThresholds: one condition folded into the running minimum
Accumulate(acc, timeUntil) ==
    LET clamped == IF timeUntil < 0 THEN 0 ELSE timeUntil
    IN  IF ~acc.hasActiveCondition \/ clamped < acc.minTimeUntil
        THEN [minTimeUntil |-> clamped, hasActiveCondition |-> TRUE]
        ELSE acc

\* GetTimeUntilThresholds
GetTimeUntilThresholds(st, snap) ==
    LET a0 == [minTimeUntil |-> 0, hasActiveCondition |-> FALSE]
        a1 == IF noUsersThreshold > 0 /\ st.NoUsersIdleSince # Nil
              THEN Accumulate(a0, noUsersThreshold - Elapsed(st.NoUsersIdleSince))
              ELSE a0
        a2 == IF allDisconnectedThreshold > 0 /\ st.AllDisconnectedSince # Nil
              THEN Accumulate(a1, allDisconnectedThreshold - Elapsed(st.AllDisconnectedSince))
              ELSE a1
        idles == ReadableIdleTimes(snap, st.CurrentSessions)
        a3 == IF /\ inactiveUserThreshold > 0
                 /\ st.CurrentSessions # {}
                 /\ \E session \in st.CurrentSessions : ~session.IsDisconnected
                 /\ idles # {}
              THEN Accumulate(a2, inactiveUserThreshold - SetMin(idles))
              ELSE a2
    IN  IF ~a3.hasActiveCondition THEN 0
        ELSE IF a3.minTimeUntil < 0 THEN 0 ELSE a3.minTimeUntil

\* ------------------------------------------------------- NotifierManager
\* one call an operation made: op is the operation, to the sessions a command
\* was written to, failed the sessions whose exchange failed, err the error return
Call(op, to, failed, err) == [op |-> op, to |-> to, failed |-> failed, err |-> err]

NoNotifiers == [s \in {} |-> [IsConnected |-> FALSE]]

\* no relay process has been created
NoProcesses == [s \in SessionIds |-> [running |-> 0, handles |-> 0]]

\* the goroutines that call checkSessions: monitorSessions for the initial
\* check, monitorLoop through ensureNotifiersReady before a notification
Callers == {"monitorSessions", "monitorLoop"}

\* no goroutine is inside checkSessions, GetActiveSessions was never called
NotCalling == [g \in Callers |-> [pc |-> "idle", at |-> 0, sessions |-> NoSnapshot]]
NoListings == [count |-> 0, latest |-> NoSnapshot]

\* What the host answers to one operation of the manager: exited are the
\* sessions whose relay process GetExitCodeProcess reports as no longer running,
\* spawn the sessions for which no relay can be started, pipe the sessions whose
\* pipe exchange fails.
NoFault == [exited |-> {}, spawn |-> {}, pipe |-> {}]

\* stopNotifier: the record leaves the registry
stopNotifier(reg, sessionID) == [s \in (DOMAIN reg) \ {sessionID} |-> reg[s]]

\* startNotifier, on success: a record for a fresh relay process (the outcome of
\* the ping is only logged)
startNotifier(reg, sessionID, isConnected) ==
    [s \in (DOMAIN reg) \cup {sessionID} |->
        IF s = sessionID THEN [IsConnected |-> isConnected] ELSE reg[s]]

\* isProcessAlive
isProcessAlive(fault, sessionID) == sessionID \notin fault.exited

\* SendCommand to a session fails
CommandFails(fault, sessionID) == sessionID \in fault.pipe

\* a loop body that leaves the connection flag of a live relay as it was
checkOneSessionStaleFlag(reg, session, fault) ==
    IF session.SessionId \in DOMAIN reg /\ isProcessAlive(fault, session.SessionId)
    THEN reg
    ELSE LET cleaned == IF session.SessionId \in DOMAIN reg
                        THEN stopNotifier(reg, session.SessionId)
                        ELSE reg
         IN  IF session.SessionId \in fault.spawn
             THEN cleaned
             ELSE startNotifier(cleaned, session.SessionId, session.IsActive)

\* checkSessions, the loop body for one session of the snapshot
checkOneSession(reg, session, fault) ==
    LET sessionID == session.SessionId
        isConnected == session.IsActive
        updated == IF sessionID \in DOMAIN reg
                   THEN [reg EXCEPT ![sessionID].IsConnected = isConnected]
                   ELSE reg
    IN  IF sessionID \in DOMAIN reg /\ isProcessAlive(fault, sessionID)
        THEN updated
        ELSE LET cleaned == IF sessionID \in DOMAIN reg
                            THEN stopNotifier(updated, sessionID)
                            ELSE updated
             IN  IF sessionID \in fault.spawn
                 THEN cleaned
                 ELSE startNotifier(cleaned, sessionID, isConnected)

RECURSIVE checkAllSessions(_, _, _)
checkAllSessions(reg, sessions, fault) ==
    IF sessions = {} THEN reg
    ELSE LET session == CHOOSE x \in sessions :
                            \A y \in sessions : x.SessionId <= y.SessionId
         IN  checkAllSessions(checkOneSession(reg, session, fault),
                              sessions \ {session}, fault)

\* the sessions for which checkSessions starts a notifier
NeedsNotifier(reg, session, fault) ==
    ~(session.SessionId \in DOMAIN reg /\ isProcessAlive(fault, session.SessionId))

\* checkSessions without the startup notice:
\* [notifiers, started: the sessions a relay was spawned for, connectedNotifierStarted]
checkSessionsCore(reg, snap, fault) ==
    IF snap.listErr
    THEN [notifiers |-> reg, started |-> {}, connectedNotifierStarted |-> FALSE]
    ELSE
    LET sessions == GetActiveSessions(snap)
        activeSessions == { session.SessionId : session \in sessions }
        spawned == { session \in sessions :
                        NeedsNotifier(reg, session, fault)
                        /\ session.SessionId \notin fault.spawn }
        reg1 == checkAllSessions(reg, sessions, fault)
        reg2 == [s \in (DOMAIN reg1) \cap activeSessions |-> reg1[s]]
    IN  [notifiers |-> reg2,
         started |-> { session.SessionId : session \in spawned },
         connectedNotifierStarted |-> \E session \in spawned : session.IsActive]

\* every record, connected or not
AllRecords(reg) == DOMAIN reg

\* only the records whose connection flag is set
ConnectedRecords(reg) == { s \in DOMAIN reg : reg[s].IsConnected }

\* the sessions each notification is written to
WarningTargets(reg) == { s \in DOMAIN reg : reg[s].IsConnected }
CancellationTargets(reg) == { s \in DOMAIN reg : reg[s].IsConnected }
InfoTargets(reg) == { s \in DOMAIN reg : reg[s].IsConnected }
DismissTargets(reg) == DOMAIN reg

\* a send loop that gives up at the first failing session
SendUntilFailure(op, reg, targets, fault) ==
    IF DOMAIN reg = {}
    THEN Call(op, {}, {}, FALSE)
    ELSE LET failed == { s \in targets : CommandFails(fault, s) }
             reached == IF failed = {} THEN targets
                        ELSE { s \in targets : s <= SetMin(failed) }
         IN  Call(op, reached, reached \cap failed, failed # {})

\* the send loop shared by SendWarning, SendCancellation and SendInfo
SendTo(op, reg, targets, fault) ==
    IF DOMAIN reg = {}
    THEN Call(op, {}, {}, FALSE)
    ELSE LET failed == { s \in targets : CommandFails(fault, s) }
         IN  Call(op, targets, failed, failed # {})

\* a relay found alive a moment ago is still alive
StillAlive(fault) == [fault EXCEPT !.exited = {}]

\* SendInfo: [notifiers, calls]
SendInfo(reg, snap, fault) ==
    LET cs == checkSessionsCore(reg, snap, fault)
    IN  [notifiers |-> cs.notifiers,
         calls |-> << SendTo("SendInfo", cs.notifiers, InfoTargets(cs.notifiers), fault) >>]

\* a startup notice for every call that starts a connected notifier
StartupNotificationOnEverySpawn(sent, cs) ==
    cs.connectedNotifierStarted /\ DOMAIN cs.notifiers # {}

\* the startup-notice test of checkSessions
ShouldSendStartupNotification(sent, cs) ==
    ~sent /\ cs.connectedNotifierStarted /\ DOMAIN cs.notifiers # {}

\* checkSessions: [notifiers, startupNotificationSent, calls]
checkSessions(reg, sent, snap, fault) ==
    LET cs == checkSessionsCore(reg, snap, fault)
    IN  IF ShouldSendStartupNotification(sent, cs)
        THEN LET info == SendInfo(cs.notifiers, snap, StillAlive(fault))
             IN  [notifiers |-> info.notifiers, startupNotificationSent |-> TRUE,
                  calls |-> info.calls]
        ELSE [notifiers |-> cs.notifiers, startupNotificationSent |-> sent, calls |-> <<>>]

\* ----- the relay processes behind the registry
\* The manager with its processes: reg the registry, procs for every session
\* the relay processes that run and the process handles the service holds.

\* GetExitCodeProcess finds these relays no longer running
ProcessExited(procs, exited) ==
    [s \in SessionIds |-> IF s \in exited THEN [procs[s] EXCEPT !.running = 0] ELSE procs[s]]

\* stopNotifier: TerminateProcess, CloseHandle, delete
stopNotifierProcess(w, sessionID) ==
    [reg |-> stopNotifier(w.reg, sessionID),
     procs |-> [w.procs EXCEPT ![sessionID].running = IF @ > 0 THEN @ - 1 ELSE 0,
                               ![sessionID].handles = IF @ > 0 THEN @ - 1 ELSE 0]]

\* startNotifier, on success: CreateProcessAsUser, the thread handle closed,
\* the process handle stored in the record
startNotifierProcess(w, sessionID, isConnected) ==
    [reg |-> startNotifier(w.reg, sessionID, isConnected),
     procs |-> [w.procs EXCEPT ![sessionID].running = @ + 1,
                               ![sessionID].handles = @ + 1]]

\* a loop body that starts the new relay without stopping the dead one
checkOneSessionOverwrite(w, session, fault) ==
    IF session.SessionId \in DOMAIN w.reg /\ isProcessAlive(fault, session.SessionId)
    THEN w
    ELSE IF session.SessionId \in fault.spawn
         THEN w
         ELSE startNotifierProcess(w, session.SessionId, session.IsActive)

\* checkSessions, the loop body for one session of the snapshot
checkOneSessionProcesses(w, session, fault) ==
    LET sessionID == session.SessionId
        isConnected == session.IsActive
        updated == IF sessionID \in DOMAIN w.reg
                   THEN [w EXCEPT !.reg[sessionID].IsConnected = isConnected]
                   ELSE w
    IN  IF sessionID \in DOMAIN w.reg /\ isProcessAlive(fault, sessionID)
        THEN updated
        ELSE LET cleaned == IF sessionID \in DOMAIN w.reg
                            THEN stopNotifierProcess(updated, sessionID)
                            ELSE updated
             IN  IF sessionID \in fault.spawn
                 THEN cleaned
                 ELSE startNotifierProcess(cleaned, sessionID, isConnected)

RECURSIVE checkAllSessionsProcesses(_, _, _)
checkAllSessionsProcesses(w, sessions, fault) ==
    IF sessions = {} THEN w
    ELSE LET session == CHOOSE x \in sessions :
                            \A y \in sessions : x.SessionId <= y.SessionId
         IN  checkAllSessionsProcesses(checkOneSessionProcesses(w, session, fault),
                                       sessions \ {session}, fault)

\* checkSessions, the second loop: the notifiers of sessions no longer listed
RECURSIVE stopInactiveProcesses(_, _)
stopInactiveProcesses(w, inactive) ==
    IF inactive = {} THEN w
    ELSE LET sessionID == CHOOSE x \in inactive : \A y \in inactive : x <= y
         IN  stopInactiveProcesses(stopNotifierProcess(w, sessionID),
                                   inactive \ {sessionID})

checkSessionsCoreProcesses(w, snap, fault) ==
    IF snap.listErr
    THEN w
    ELSE LET sessions == GetActiveSessions(snap)
             activeSessions == { session.SessionId : session \in sessions }
             w1 == checkAllSessionsProcesses(w, sessions, fault)
         IN  stopInactiveProcesses(w1, (DOMAIN w1.reg) \ activeSessions)

\* checkSessions with the checkSessions of its startup notice (SendInfo)
checkSessionsProcesses(w, sent, snap, fault) ==
    LET w1 == checkSessionsCoreProcesses(w, snap, fault)
    IN  IF ShouldSendStartupNotification(sent, checkSessionsCore(w.reg, snap, fault))
        THEN checkSessionsCoreProcesses(w1, snap, StillAlive(fault))
        ELSE w1

\* SendWarning: [notifiers, startupNotificationSent, calls, err]
SendWarning(reg, sent, snap, fault) ==
    LET cs == checkSessions(reg, sent, snap, fault)
        send == SendTo("SendWarning", cs.notifiers, WarningTargets(cs.notifiers), fault)
    IN  [notifiers |-> cs.notifiers, startupNotificationSent |-> cs.startupNotificationSent,
         calls |-> cs.calls \o <<send>>, err |-> send.err]

\* SendCancellation
SendCancellation(reg, sent, snap, fault) ==
    LET cs == checkSessions(reg, sent, snap, fault)
        send == SendTo("SendCancellation", cs.notifiers,
                       CancellationTargets(cs.notifiers), fault)
    IN  [notifiers |-> cs.notifiers, startupNotificationSent |-> cs.startupNotificationSent,
         calls |-> cs.calls \o <<send>>, err |-> send.err]

\* DismissWarning: no session check, every record, and always a nil return
DismissWarning(reg, fault) ==
    IF DOMAIN reg = {}
    THEN Call("DismissWarning", {}, {}, FALSE)
    ELSE Call("DismissWarning", DismissTargets(reg),
              { s \in DismissTargets(reg) : CommandFails(fault, s) }, FALSE)

\* -------------------------------------------------- AutoHibernateService
\* the throttle test of checkAndHibernate
ThrottleAllows(last) ==
    last = Nil \/ Elapsed(last) >= notificationThrottleDuration

\* a warning sent before the hibernate action
NotifyThenHibernate(hibOk) ==
    << Call("SendWarning", {}, {}, FALSE), Call("Reset", {}, {}, FALSE),
       Call("HibernateVM", {}, {}, ~hibOk) >>

\* the calls of checkAndHibernate when Check asks for hibernation: the engine's
\* Reset, then the hibernate action
HibernateCalls(hibOk) ==
    << Call("Reset", {}, {}, FALSE), Call("HibernateVM", {}, {}, ~hibOk) >>

\* checkAndHibernate after Check returned chk:
\* [state, lastNotificationTime, notifiers, startupNotificationSent, calls,
\*  shouldWarn, isHibernating]
checkAndHibernate(chk, snap, last, hasNM, reg, sent, hibOk, fault) ==
    LET keep == [state |-> chk.st, lastNotificationTime |-> last, notifiers |-> reg,
                 startupNotificationSent |-> sent, calls |-> <<>>,
                 shouldWarn |-> FALSE, isHibernating |-> FALSE]
    IN  IF chk.err THEN keep
        ELSE IF chk.res.ShouldWarn
        THEN IF ThrottleAllows(last) /\ hasNM
             THEN LET w == SendWarning(reg, sent, snap, fault)
                  IN  [keep EXCEPT !.lastNotificationTime = IF w.err THEN last ELSE Some(0),
                                   !.notifiers = w.notifiers,
                                   !.startupNotificationSent = w.startupNotificationSent,
                                   !.calls = w.calls,
                                   !.shouldWarn = TRUE]
             ELSE [keep EXCEPT !.shouldWarn = TRUE]
        ELSE IF chk.res.ShouldHibernate
        THEN [keep EXCEPT !.state = Reset(chk.st),
                          !.calls = HibernateCalls(hibOk),
                          !.isHibernating = hibOk]
        ELSE keep

\* the cancellation before the dismissal
CancelThenDismiss(dismiss, cancel) == cancel \o <<dismiss>>

\* the calls of performMonitorCheck when the warning mode ends without a
\* hibernation: dismiss is the DismissWarning call, cancel the calls SendCancellation
\* makes
CancelCalls(dismiss, cancel) == <<dismiss>> \o cancel

\* performMonitorCheck after checkAndHibernate returned h:
\* [inWarningMode, lastNotificationTime, notifiers, startupNotificationSent, calls]
performMonitorCheck(h, inWM, hasNM, snap, fault) ==
    LET same == [inWarningMode |-> inWM, lastNotificationTime |-> h.lastNotificationTime,
                 notifiers |-> h.notifiers,
                 startupNotificationSent |-> h.startupNotificationSent, calls |-> h.calls]
    IN  IF h.shouldWarn /\ ~inWM
        THEN [same EXCEPT !.inWarningMode = TRUE]
        ELSE IF ~h.shouldWarn /\ inWM
        THEN IF h.isHibernating \/ ~hasNM
             THEN [same EXCEPT !.inWarningMode = FALSE, !.lastNotificationTime = Nil]
             ELSE LET dismiss == DismissWarning(h.notifiers, fault)
                      cancel == SendCancellation(h.notifiers, h.startupNotificationSent,
                                                 snap, fault)
                  IN  [inWarningMode |-> FALSE, lastNotificationTime |-> Nil,
                       notifiers |-> cancel.notifiers,
                       startupNotificationSent |-> cancel.startupNotificationSent,
                       calls |-> h.calls \o CancelCalls(dismiss, cancel.calls)]
        ELSE same

\* an interval calculation without the five-second floor
calculateNextCheckTimeNoFloor(inWM, st, snap) ==
    IF inWM THEN warningCheckInterval
    ELSE IF GetTimeUntilThresholds(st, snap) > 0
    THEN GetTimeUntilThresholds(st, snap)
    ELSE SetMin({ t \in {noUsersThreshold, allDisconnectedThreshold,
                         inactiveUserThreshold, defaultCheckMinutes * Minute} : t > 0 })

\* calculateNextCheckTime
calculateNextCheckTime(inWM, st, snap) ==
    IF inWM THEN warningCheckInterval
    ELSE
    LET m0 == config.NoUsersIdleMinutes
        m1 == IF /\ config.AllDisconnectedIdleMinutes > 0
                 /\ (m0 = 0 \/ config.AllDisconnectedIdleMinutes < m0)
              THEN config.AllDisconnectedIdleMinutes ELSE m0
        minThreshold == IF /\ config.InactiveUserIdleMinutes > 0
                           /\ (m1 = 0 \/ config.InactiveUserIdleMinutes < m1)
                        THEN config.InactiveUserIdleMinutes ELSE m1
        defaultCheckInterval == IF minThreshold > 0 THEN minThreshold * Minute
                                ELSE defaultCheckMinutes * Minute
        timeUntil == GetTimeUntilThresholds(st, snap)
    IN  IF timeUntil <= 0 THEN defaultCheckInterval
        ELSE IF timeUntil < minCheckInterval THEN minCheckInterval
        ELSE timeUntil

\* ------------------------------------------------------------------ inputs
\* how much later than planned a cycle starts
Lags == {0, warningCheckInterval}

\* the host was booted at least Horizon before the service was created
HostUptime == Horizon

IdleRank(r) == IF r = Nil THEN Horizon + 1 ELSE Val(r)

\* The idle times of the connected sessions enter Check and
\* GetTimeUntilThresholds only through their minimum and through "some session
\* has ...", so the snapshots list them in ascending order of session id.
ValidSnapshot(snap) ==
    /\ \A s \in SessionIds : snap.idle[s] \in IdleReads(snap.sessions[s])
    /\ \A s, t \in SessionIds :
          (s < t /\ snap.sessions[s] = WTSActive /\ snap.sessions[t] = WTSActive)
             => IdleRank(snap.idle[s]) <= IdleRank(snap.idle[t])

SessionSnapshots ==
    { snap \in
        { [sessions |-> tab, idle |-> idl, uptime |-> up, listErr |-> FALSE] :
            tab \in SessionTables,
            idl \in [SessionIds -> {Nil} \cup { Some(t) : t \in IdleTimes }],
            up \in {Nil, Some(HostUptime)} } :
        ValidSnapshot(snap) }

\* GetSystemUptime is called only with a minimum uptime configured
Snapshots ==
    { [sessions |-> NoSnapshot.sessions, idle |-> NoSnapshot.idle,
       uptime |-> Nil, listErr |-> TRUE] }
    \cup
    { snap \in SessionSnapshots : snap.uptime # Nil => minimumUptimeThreshold > 0 }

\* the cycle calls the notifier manager
CycleNotifies(chk, last, hibOk) ==
    /\ hasNotifierManager
    /\ ~chk.err
    /\ \/ chk.res.ShouldWarn /\ ThrottleAllows(last)
       \/ /\ ~chk.res.ShouldWarn
          /\ inWarningMode
          /\ ~(chk.res.ShouldHibernate /\ hibOk)

\* the host's answers to one operation of the manager that can make a
\* difference: at most MaxFaults of them are failures
Faults(reg, snap) ==
    LET listed == { s \in SessionIds : snap.sessions[s] # WTSAbsent }
    IN  { f \in [exited : SUBSET ((DOMAIN reg) \cap listed),
                 spawn : SUBSET listed,
                 pipe : SUBSET (listed \cup DOMAIN reg)] :
            /\ f.spawn \subseteq (listed \ DOMAIN reg) \cup f.exited
            /\ Cardinality(f.exited) + Cardinality(f.spawn) + Cardinality(f.pipe)
                  <= MaxFaults }

IoChoices(chk, last, hibOk, snap) ==
    IF CycleNotifies(chk, last, hibOk) THEN Faults(notifiers, snap) ELSE {NoFault}

NoCheck == [st |-> NewIdleState,
            res |-> CheckResult(IdleConditionNone, FALSE, FALSE, <<>>, 0),
            err |-> FALSE, gated |-> FALSE, canceled |-> FALSE, ran |-> FALSE]

\* ------------------------------------------------------ the idle extras
\* no SendCommand under way
NoExchange == [pc |-> "idle", waited |-> 0, endpoint |-> "none", result |-> ""]

\* sync.RWMutex, unlocked
Unlocked == [writer |-> "", readers |-> {}]

Goroutines == {"monitorLoop", "monitorSessions", "Execute"}

\* every goroutine outside the operations that are followed step by step
NoThreads == [g \in Goroutines |-> [op |-> "", pos |-> 0]]

\* ----------------------------------------------------------------- actions
Init ==
    /\ config \in Configs
    /\ state = NewIdleState
    /\ resumeAt = 0
    /\ svcResumeAt = Some(0)
    /\ inWarningMode = FALSE
    /\ lastNotificationTime = Nil
    /\ nextCheckDuration = 0
    /\ hasNotifierManager \in BOOLEAN
    /\ notifiers = NoNotifiers
    /\ startupNotificationSent = FALSE
    /\ sessionsMonitored = FALSE
    /\ snapshot = NoSnapshot
    /\ checked = NoCheck
    /\ calls = <<>>
    /\ caller = ""
    /\ exchange = NoExchange
    /\ shutdown = "running"
    /\ inFlight = FALSE
    /\ loopEntered = FALSE
    /\ processes = NoProcesses
    /\ localSessions = NotCalling
    /\ listings = NoListings
    /\ mu = Unlocked
    /\ threads = NoThreads

\* one iteration of monitorLoop: the sleep (d seconds pass), performMonitorCheck
\* and calculateNextCheckTime; the one-element sets name intermediate values
Cycle ==
    \E lag \in Lags, snap \in Snapshots :
    \E d \in {nextCheckDuration + lag} :
    \E since \in {Older(resumeAt, d, Beyond(minimumUptimeThreshold))} :
    \E last \in {AdvanceOpt(lastNotificationTime, d, Beyond(notificationThrottleDuration))} :
    \E chk \in {Check(AdvanceState(state, d), snap, since)} :
    \E hibOk \in (IF chk.res.ShouldHibernate THEN BOOLEAN ELSE {TRUE}) :
    \E fault \in IoChoices(chk, last, hibOk, snap) :
    \E h \in {checkAndHibernate(chk, snap, last, hasNotifierManager, notifiers,
                                startupNotificationSent, hibOk, fault)} :
    \E p \in {performMonitorCheck(h, inWarningMode, hasNotifierManager, snap, fault)} :
        /\ snapshot' = snap
        /\ checked' = chk
        /\ state' = h.state
        /\ resumeAt' = since
        /\ svcResumeAt' = Some(since)
        /\ inWarningMode' = p.inWarningMode
        /\ lastNotificationTime' = p.lastNotificationTime
        /\ notifiers' = p.notifiers
        /\ startupNotificationSent' = p.startupNotificationSent
        /\ calls' = p.calls
        /\ caller' = "performMonitorCheck"
        /\ nextCheckDuration' = calculateNextCheckTime(p.inWarningMode, h.state, snap)
        /\ UNCHANGED <<config, hasNotifierManager, sessionsMonitored>>
        /\ UNCHANGED <<pipeVars, lockVars, hostVars>>

\* monitorLoop runs its cycles until the stop signal
MonitorCycle ==
    /\ shutdown = "running"
    /\ Cycle
    /\ UNCHANGED stopVars

\* NotifierManager.monitorSessions: the initial session check Start launches
MonitorSessions ==
    /\ hasNotifierManager
    /\ ~sessionsMonitored
    /\ \E snap \in { x \in Snapshots : x.idle = NoSnapshot.idle /\ x.uptime = Nil } :
       \E fault \in Faults(notifiers, snap) :
       \E cs \in {checkSessions(notifiers, startupNotificationSent, snap, fault)} :
           /\ notifiers' = cs.notifiers
           /\ startupNotificationSent' = cs.startupNotificationSent
           /\ calls' = cs.calls
    /\ caller' = "monitorSessions"
    /\ sessionsMonitored' = TRUE
    /\ UNCHANGED <<config, state, resumeAt, svcResumeAt, inWarningMode,
                   lastNotificationTime, nextCheckDuration, hasNotifierManager,
                   snapshot, checked>>
    /\ UNCHANGED <<pipeVars, stopVars, lockVars, hostVars>>

\* a handler that knows only the automatic resume event
handlePowerEventAutomaticOnly(eventType) ==
    /\ IF eventType = PBT_APMRESUMEAUTOMATIC
       THEN /\ svcResumeAt' = Some(0)
            /\ resumeAt' = 0
            /\ calls' = << Call("SetResumeTime", {}, {}, FALSE) >>
       ELSE /\ UNCHANGED <<svcResumeAt, resumeAt>>
            /\ calls' = <<>>
    /\ caller' = "handlePowerEvent"
    /\ UNCHANGED <<config, state, inWarningMode, lastNotificationTime,
                   nextCheckDuration, hasNotifierManager, notifiers,
                   startupNotificationSent, sessionsMonitored, snapshot, checked>>
    /\ UNCHANGED <<pipeVars, stopVars, lockVars, hostVars>>

\* handlePowerEvent
handlePowerEvent(eventType) ==
    /\ IF eventType = PBT_APMRESUMEAUTOMATIC \/ eventType = PBT_APMRESUMESUSPEND
       THEN /\ svcResumeAt' = Some(0)
            /\ resumeAt' = 0
            /\ calls' = << Call("SetResumeTime", {}, {}, FALSE) >>
       ELSE /\ UNCHANGED <<svcResumeAt, resumeAt>>
            /\ calls' = <<>>
    /\ caller' = "handlePowerEvent"
    /\ UNCHANGED <<config, state, inWarningMode, lastNotificationTime,
                   nextCheckDuration, hasNotifierManager, notifiers,
                   startupNotificationSent, sessionsMonitored, snapshot, checked>>
    /\ UNCHANGED <<pipeVars, stopVars, lockVars, hostVars>>

PowerEvent ==
    \E eventType \in {PBT_APMRESUMEAUTOMATIC, PBT_APMRESUMESUSPEND, PBT_OTHER} :
        handlePowerEvent(eventType)

\* ---------------------------------------------------------- specifications
\* the engine and the orchestrator, without a notifier manager
EngineConfigs ==
    { c \in Configs :
        c.MinimumUptimeMinutes > 0 =>
            /\ c.AllDisconnectedIdleMinutes = 0
            /\ (c.NoUsersIdleMinutes > 0) # (c.InactiveUserIdleMinutes > 0)
            /\ (c.InactiveUserWarningMinutes > 0) = (c.InactiveUserIdleMinutes > 0) }

InitEngine == Init /\ ~hasNotifierManager /\ config \in EngineConfigs

NextEngine == MonitorCycle \/ PowerEvent

SpecEngine == InitEngine /\ [][NextEngine]_vars

\* the whole service, with every threshold and the warning period configured
ServiceConfigs ==
    { c \in Configs :
        /\ c.NoUsersIdleMinutes > 0
        /\ c.AllDisconnectedIdleMinutes > 0
        /\ c.InactiveUserIdleMinutes > 0
        /\ c.InactiveUserWarningMinutes > 0
        /\ c.MinimumUptimeMinutes = 0 }

InitService == Init /\ config \in ServiceConfigs

\* (power events only move the resume time, which Check reads only with a
\* minimum uptime configured)
Next == MonitorCycle \/ MonitorSessions

Spec == InitService /\ [][Next]_vars

\* ------------------------------------------- checkSessions on its own
\* checkSessions called again and again, each time with the sessions the host
\* lists and with the host's answers about the relay processes.  The calls it
\* makes on the host are recorded: isProcessAlive for the records of listed
\* sessions (failed: the processes found dead) and startNotifier for the
\* sessions without a live relay (failed: the spawns that failed).
checkSessionsAlone ==
    /\ hasNotifierManager
    /\ \E snap \in { x \in Snapshots : x.idle = NoSnapshot.idle /\ x.uptime = Nil } :
       \E fault \in Faults(notifiers, snap) :
       \E cs \in {checkSessions(notifiers, startupNotificationSent, snap, fault)} :
       \E listed \in {{ s \in SessionIds : ~snap.listErr /\ snap.sessions[s] # WTSAbsent }} :
       \E probed \in {listed \cap DOMAIN notifiers} :
       \E wanted \in {(listed \ DOMAIN notifiers) \cup (probed \cap fault.exited)} :
           /\ notifiers' = cs.notifiers
           /\ processes' = checkSessionsProcesses(
                               [reg |-> notifiers,
                                procs |-> ProcessExited(processes, fault.exited)],
                               startupNotificationSent, snap, fault).procs
           /\ startupNotificationSent' = cs.startupNotificationSent
           /\ snapshot' = snap
           /\ calls' = << Call("isProcessAlive", probed, probed \cap fault.exited, FALSE),
                          Call("startNotifier", wanted, wanted \cap fault.spawn,
                               wanted \cap fault.spawn # {}) >>
                       \o cs.calls
    /\ caller' = "checkSessions"
    /\ UNCHANGED <<config, state, resumeAt, svcResumeAt, inWarningMode,
                   lastNotificationTime, nextCheckDuration, hasNotifierManager,
                   sessionsMonitored, checked, pipeVars, stopVars, lockVars,
                   localSessions, listings>>

InitRegistry == Init /\ config \in ServiceConfigs /\ hasNotifierManager

NextRegistry == checkSessionsAlone

SpecRegistry == InitRegistry /\ [][NextRegistry]_vars

\* --------------------------------------- checkSessions, called concurrently
\* checkSessions lists the sessions first and takes nm.mu afterwards, so a call
\* is followed here through its three positions: the listing, the Lock, and
\* the locked part up to the Unlock. The notifications that follow a call
\* (SendWarning, SendCancellation, SendInfo) only read the registry.

\* where a goroutine is after its call has returned: monitorSessions ends,
\* monitorLoop goes on to its next notification
CallReturned(g) == IF g = "monitorSessions" THEN "done" ELSE "idle"

\* monitor.GetActiveSessions at the head of checkSessions; on an error the call
\* returns at once. A goroutine at "SendInfo" is in the startup notice, whose
\* ensureNotifiersReady calls checkSessions again.
ListSessions(g) ==
    /\ hasNotifierManager
    /\ localSessions[g].pc \in {"idle", "SendInfo"}
    /\ listings.count < MaxListings
    /\ \E snap \in { x \in Snapshots : x.idle = NoSnapshot.idle /\ x.uptime = Nil } :
          IF snap.listErr
          THEN /\ localSessions' = [localSessions EXCEPT ![g].pc = CallReturned(g)]
               /\ UNCHANGED listings
          ELSE /\ localSessions' = [localSessions EXCEPT ![g] =
                                       [pc |-> "Lock", at |-> listings.count + 1,
                                        sessions |-> snap]]
               /\ listings' = [count |-> listings.count + 1, latest |-> snap]
    /\ UNCHANGED <<config, state, resumeAt, svcResumeAt, inWarningMode,
                   lastNotificationTime, nextCheckDuration, hasNotifierManager,
                   notifiers, startupNotificationSent, sessionsMonitored, snapshot,
                   checked, calls, caller, pipeVars, stopVars, lockVars, processes>>

\* nm.mu.Lock()
LockSessions(g) ==
    /\ localSessions[g].pc = "Lock"
    /\ mu = Unlocked
    /\ mu' = [mu EXCEPT !.writer = g]
    /\ localSessions' = [localSessions EXCEPT ![g].pc = "locked"]
    /\ UNCHANGED <<config, state, resumeAt, svcResumeAt, inWarningMode,
                   lastNotificationTime, nextCheckDuration, hasNotifierManager,
                   notifiers, startupNotificationSent, sessionsMonitored, snapshot,
                   checked, calls, caller, pipeVars, stopVars, threads, processes,
                   listings>>

\* the locked part: the registry is brought to the list the call took, the
\* startup flag is set when the notice is due, and nm.mu.Unlock()
ApplySessions(g) ==
    /\ localSessions[g].pc = "locked"
    /\ \E snap \in {localSessions[g].sessions} :
       \E cs \in {checkSessionsCore(notifiers, snap, NoFault)} :
       \E send \in {ShouldSendStartupNotification(startupNotificationSent, cs)} :
          /\ notifiers' = cs.notifiers
          /\ processes' = checkSessionsCoreProcesses(
                              [reg |-> notifiers, procs |-> processes], snap, NoFault).procs
          /\ startupNotificationSent' = (startupNotificationSent \/ send)
          /\ snapshot' = snap
          /\ localSessions' = [localSessions EXCEPT ![g].pc =
                                  IF send THEN "SendInfo" ELSE CallReturned(g)]
    /\ mu' = [mu EXCEPT !.writer = ""]
    /\ UNCHANGED <<config, state, resumeAt, svcResumeAt, inWarningMode,
                   lastNotificationTime, nextCheckDuration, hasNotifierManager,
                   sessionsMonitored, checked, calls, caller, pipeVars, stopVars,
                   threads, listings>>

InitSessions == Init /\ config \in ServiceConfigs /\ hasNotifierManager

NextSessions == \E g \in Callers : ListSessions(g) \/ LockSessions(g) \/ ApplySessions(g)

SpecSessions == InitSessions /\ [][NextSessions]_vars

\* ------------------------------------------------ FormatTimeRemaining
\* A time.Duration is counted in half seconds here, so that d.Seconds() has a
\* fraction for int() to cut off.
HalfSecondsPerSecond == 2

\* int(d.Seconds()): the conversion truncates towards zero
Seconds(d) ==
    IF d >= 0 THEN d \div HalfSecondsPerSecond ELSE -((-d) \div HalfSecondsPerSecond)

\* a rounding that drops the remainder
RoundDown(totalSeconds) == (totalSeconds \div 30) * 30

\* ((totalSeconds + 15) / 30) * 30
RoundToNearest30(totalSeconds) == ((totalSeconds + 15) \div 30) * 30

\* fmt.Sprintf("%d", n)
Sprintd(n) == ToString(n)

FormatTimeRemaining(d) ==
    LET totalSeconds == Seconds(d)
        rounded == RoundToNearest30(totalSeconds)
        minutes == rounded \div 60
        seconds == rounded % 60
        minWord == IF minutes > 1 THEN "minutes" ELSE "minute"
        secWord == IF seconds > 1 THEN "seconds" ELSE "second"
    IN  IF totalSeconds <= 0 THEN "immediately"
        ELSE IF rounded < 30 THEN "less than 30 seconds"
        ELSE IF minutes > 0 /\ seconds > 0
             THEN Sprintd(minutes) \o " " \o minWord \o " "
                  \o Sprintd(seconds) \o " " \o secWord
        ELSE IF minutes > 0
             THEN IF minutes = 1 THEN "1 minute" ELSE Sprintd(minutes) \o " minutes"
        ELSE "30 seconds"

\* the durations formatted: negative ones, zero, and up to MaxFormatSeconds
FormatDurations == (-2 * HalfSecondsPerSecond)..(MaxFormatSeconds * HalfSecondsPerSecond)

\* FormatWarningMessage formats the time remaining of a warning
FormatWarningMessage ==
    /\ \E d \in FormatDurations :
           calls' = << [op |-> "FormatTimeRemaining", d |-> d,
                        text |-> FormatTimeRemaining(d)] >>
    /\ caller' = "FormatWarningMessage"
    /\ UNCHANGED <<config, state, resumeAt, svcResumeAt, inWarningMode,
                   lastNotificationTime, nextCheckDuration, hasNotifierManager,
                   notifiers, startupNotificationSent, sessionsMonitored, snapshot,
                   checked, pipeVars, stopVars, lockVars, hostVars>>

InitFormat == Init /\ config \in ServiceConfigs /\ hasNotifierManager

NextFormat == FormatWarningMessage

SpecFormat == InitFormat /\ [][NextFormat]_vars

\* ------------------------------------------------ Execute: the shutdown
\* Execute after the stop request: it closes stopChan and sleeps two seconds.
\* The request can come before the goroutine of monitorLoop has run at all
\* (go s.monitorLoop() only makes it runnable): loopEntered stays FALSE then.
\* monitorLoop looks at stopChan only between two cycles, so a cycle that had
\* begun goes on (inFlight); its calls can take longer than the two seconds
\* (startNotifier waits a second per relay, SendCommand up to five seconds, the
\* hibernate call up to thirty).
StopRequested ==
    /\ shutdown = "running"
    /\ shutdown' = "stopping"
    /\ inFlight' \in BOOLEAN
    /\ loopEntered' = (loopEntered \/ inFlight')
    /\ calls' = <<>>
    /\ caller' = "Execute"
    /\ UNCHANGED <<config, state, resumeAt, svcResumeAt, inWarningMode,
                   lastNotificationTime, nextCheckDuration, hasNotifierManager,
                   notifiers, startupNotificationSent, sessionsMonitored, snapshot,
                   checked, pipeVars, lockVars, hostVars>>

\* NotifierManager.Stop: it waits for monitorSessions, then stops every notifier
\* of the registry
Stop(reg) == NoNotifiers

NotifierManagerStop ==
    /\ shutdown = "stopping"
    /\ hasNotifierManager
    /\ sessionsMonitored
    /\ notifiers' = Stop(notifiers)
    /\ calls' = << Call("Stop", DOMAIN notifiers, {}, FALSE) >>
    /\ caller' = "Stop"
    /\ shutdown' = "stopped"
    /\ UNCHANGED <<config, state, resumeAt, svcResumeAt, inWarningMode,
                   lastNotificationTime, nextCheckDuration, hasNotifierManager,
                   startupNotificationSent, sessionsMonitored, snapshot, checked,
                   inFlight, loopEntered, pipeVars, lockVars, hostVars>>

\* the select of monitorLoop: time.After(nextCheckDuration) is at least five
\* seconds away when the select begins, so its case is taken only while
\* stopChan stays open
TimerFires(sd) == sd = "running"

\* the first iteration of monitorLoop: the for loop begins with
\* performMonitorCheck and reaches the select only after it, so the goroutine
\* that Execute started runs its first cycle whatever the state of stopChan
FirstIteration(entered) == ~entered

\* A cycle of monitorLoop: the first one, one that begins before the stop
\* signal, or the one that had begun before it and runs to its end after Stop
\* has returned. (A cycle that ends during the two seconds leaves the state of
\* a cycle followed by StopRequested, so that order needs no case of its own.)
monitorLoop ==
    /\ IF FirstIteration(loopEntered) \/ TimerFires(shutdown)
       THEN TRUE
       ELSE shutdown = "stopped" /\ inFlight
    /\ Cycle
    /\ inFlight' = FALSE
    /\ loopEntered' = TRUE
    /\ UNCHANGED shutdown

InitShutdown == Init /\ config \in ServiceConfigs /\ hasNotifierManager

NextShutdown ==
    \/ monitorLoop
    \/ MonitorSessions
    \/ StopRequested
    \/ NotifierManagerStop

SpecShutdown == InitShutdown /\ [][NextShutdown]_vars

\* ------------------------------------------------- goroutines and locks
\* The operations that touch shared memory, each as the sequence of its lock
\* calls and of its accesses to the registry (the map nm.notifiers and the
\* IsConnected flag of its records) and to IdleMonitor.resumeAt.
Acquire(mode) == [kind |-> mode, what |-> "mu"]
Access(mode, what) == [kind |-> mode, what |-> what]

Registry == {"notifiers", "IsConnected"}

\* checkSessions, with its calls of stopNotifier and startNotifier
checkSessionsSteps ==
    << Acquire("Lock"),
       Access("read", "notifiers"),
       Access("write", "IsConnected"),
       Access("write", "notifiers"),
       Access("write", "notifiers"),
       Access("read", "notifiers"),
       Access("write", "notifiers"),
       Access("read", "notifiers"),
       Acquire("Unlock") >>

\* the read-locked part of SendWarning, SendCancellation and SendInfo
sendSteps ==
    << Acquire("RLock"),
       Access("read", "notifiers"),
       Access("read", "notifiers"),
       Access("read", "IsConnected"),
       Acquire("RUnlock") >>

SendWarningSteps == checkSessionsSteps \o sendSteps
SendCancellationSteps == checkSessionsSteps \o sendSteps
SendInfoSteps == checkSessionsSteps \o sendSteps

\* a DismissWarning that takes no lock
DismissWarningUnlocked ==
    << Access("read", "notifiers"), Access("read", "notifiers") >>

DismissWarningSteps ==
    << Acquire("RLock"),
       Access("read", "notifiers"),
       Access("read", "notifiers"),
       Acquire("RUnlock") >>

StopSteps ==
    << Acquire("Lock"),
       Access("read", "notifiers"),
       Access("write", "notifiers"),
       Acquire("Unlock") >>

\* Check reads m.resumeAt for the minimum-uptime gate, SetResumeTime writes it
CheckSteps == << Access("read", "resumeAt") >>
SetResumeTimeSteps == << Access("write", "resumeAt") >>

Program(op) ==
    CASE op = "checkSessions" -> checkSessionsSteps
      [] op = "SendWarning" -> SendWarningSteps
      [] op = "SendCancellation" -> SendCancellationSteps
      [] op = "SendInfo" -> SendInfoSteps
      [] op = "DismissWarning" -> DismissWarningSteps
      [] op = "Stop" -> StopSteps
      [] op = "Check" -> CheckSteps
      [] op = "SetResumeTime" -> SetResumeTimeSteps
      [] OTHER -> <<>>

\* the operations each goroutine runs: monitorLoop the cycle's, monitorSessions
\* the initial session check with its startup notice, Execute the power events
\* and the shutdown
Operations(g) ==
    CASE g = "monitorLoop" -> {"Check", "SendWarning", "SendCancellation", "DismissWarning"}
      [] g = "monitorSessions" -> {"checkSessions", "SendInfo"}
      [] g = "Execute" -> {"SetResumeTime", "Stop"}

\* the step a goroutine is about to take (a one-element sequence, or <<>>)
NextStep(g) ==
    IF threads[g].op = "" THEN <<>>
    ELSE << Program(threads[g].op)[threads[g].pos] >>

\* a goroutine calls an operation
Enter(g) ==
    /\ threads[g].op = ""
    /\ \E op \in Operations(g) : threads' = [threads EXCEPT ![g] = [op |-> op, pos |-> 1]]
    /\ UNCHANGED mu

\* sync.RWMutex: Lock waits for the writer and the readers to leave, RLock for
\* the writer
Locked(g, step) ==
    CASE step.kind = "Lock" ->
            /\ mu.writer = "" /\ mu.readers = {}
            /\ mu' = [mu EXCEPT !.writer = g]
      [] step.kind = "Unlock" -> mu' = [mu EXCEPT !.writer = ""]
      [] step.kind = "RLock" ->
            /\ mu.writer = ""
            /\ mu' = [mu EXCEPT !.readers = @ \cup {g}]
      [] step.kind = "RUnlock" -> mu' = [mu EXCEPT !.readers = @ \ {g}]
      [] OTHER -> UNCHANGED mu

\* a goroutine takes the next step of its operation
Advance(g) ==
    /\ NextStep(g) # <<>>
    /\ Locked(g, NextStep(g)[1])
    /\ threads' = [threads EXCEPT ![g] =
                      IF threads[g].pos = Len(Program(threads[g].op))
                      THEN [op |-> "", pos |-> 0]
                      ELSE [threads[g] EXCEPT !.pos = @ + 1]]

GoroutineStep ==
    /\ \E g \in Goroutines : Enter(g) \/ Advance(g)
    /\ UNCHANGED <<config, state, resumeAt, svcResumeAt, inWarningMode,
                   lastNotificationTime, nextCheckDuration, hasNotifierManager,
                   notifiers, startupNotificationSent, sessionsMonitored, snapshot,
                   checked, calls, caller, pipeVars, stopVars, hostVars>>

InitThreads == Init /\ config \in ServiceConfigs /\ hasNotifierManager

NextThreads == GoroutineStep

SpecThreads == InitThreads /\ [][NextThreads]_vars

\* ------------------------------------------ monitorLoop: the recover
\* the positions of an operation at which a deferred call releases the lock
\* the operation holds: the senders and Stop defer their unlock, checkSessions
\* unlocks by a plain call at its end
DeferredUnlock(op, pos) ==
    CASE op \in {"SendWarning", "SendCancellation", "SendInfo"} ->
            pos > Len(checkSessionsSteps)
      [] op \in {"DismissWarning", "Stop"} -> TRUE
      [] OTHER -> FALSE

\* A panic inside the cycle of monitorLoop: the deferred calls of the operation
\* run, the recover of monitorLoop catches the panic, and the loop goes on
\* after its five-second pause.
PanicRecovered ==
    /\ threads["monitorLoop"].op # ""
    /\ mu' = IF DeferredUnlock(threads["monitorLoop"].op, threads["monitorLoop"].pos)
             THEN [writer |-> IF mu.writer = "monitorLoop" THEN "" ELSE mu.writer,
                   readers |-> mu.readers \ {"monitorLoop"}]
             ELSE mu
    /\ threads' = [threads EXCEPT !["monitorLoop"] = [op |-> "", pos |-> 0]]
    /\ UNCHANGED <<config, state, resumeAt, svcResumeAt, inWarningMode,
                   lastNotificationTime, nextCheckDuration, hasNotifierManager,
                   notifiers, startupNotificationSent, sessionsMonitored, snapshot,
                   checked, calls, caller, pipeVars, stopVars, hostVars>>

NextRecover == GoroutineStep \/ PanicRecovered

SpecRecover == InitThreads /\ [][NextRecover]_vars

\* ------------------------------------------- pipe.Server.SendCommand
\* One exchange of SendCommand with the relay of a session.  exchange.pc is the
\* call SendCommand is at ("idle" outside SendCommand, "returned" after it),
\* exchange.waited the milliseconds slept in the open loop, exchange.endpoint
\* the relay's end of the pipe (PipeClient.acceptConnection):
\*   "none"       no pipe instance exists (CreateFile: ERROR_FILE_NOT_FOUND),
\*   "busy"       the instance still serves the previous connection
\*                (CreateFile: ERROR_PIPE_BUSY),
\*   "listening"  the relay waits in ConnectNamedPipe,
\*   "connected"  SendCommand has opened the pipe; the relay is in ReadFile,
\*   "received"   the relay has read the command; it is in HandleCommand,
\*   "replied"    the relay has written its response,
\*   "closed"     the relay closed its handle, or its process ended.
timeout == 5
sleepMilliseconds == 100
MillisecondsPerSecond == 1000

\* time.Now().After(deadline): the pauses alone have used the timeout up
DeadlinePassed(waited) == waited >= timeout * MillisecondsPerSecond

Endpoints == {"none", "busy", "listening"}

Returned(result) == [exchange EXCEPT !.pc = "returned", !.result = result]

\* SendCommand is called: the deadline is set
SendCommandBegin ==
    /\ exchange.pc \in {"idle", "returned"}
    /\ \E e \in Endpoints :
          exchange' = [pc |-> "CreateFile", waited |-> 0, endpoint |-> e, result |-> ""]
    /\ UNCHANGED <<config, state, resumeAt, svcResumeAt, inWarningMode,
                   lastNotificationTime, nextCheckDuration, hasNotifierManager,
                   notifiers, startupNotificationSent, sessionsMonitored, snapshot,
                   checked, calls, caller, stopVars, lockVars, hostVars>>

\* one round of the open loop: CreateFile, and on "not found" or "busy" the
\* deadline test and the pause
SendCommandCreateFile ==
    /\ exchange.pc = "CreateFile"
    /\ \/ /\ exchange.endpoint = "listening"
          /\ \/ exchange' = [exchange EXCEPT !.pc = "WriteFile", !.endpoint = "connected"]
             \/ exchange' = Returned("failed to open pipe")
       \/ /\ exchange.endpoint \in {"none", "busy", "closed"}
          /\ exchange' =
                IF DeadlinePassed(exchange.waited)
                THEN Returned(IF exchange.endpoint = "busy"
                              THEN "notifier busy (timeout waiting for pipe)"
                              ELSE "notifier not available (pipe not found)")
                ELSE [exchange EXCEPT !.waited = @ + sleepMilliseconds]
    /\ UNCHANGED <<config, state, resumeAt, svcResumeAt, inWarningMode,
                   lastNotificationTime, nextCheckDuration, hasNotifierManager,
                   notifiers, startupNotificationSent, sessionsMonitored, snapshot,
                   checked, calls, caller, stopVars, lockVars, hostVars>>

\* WriteFile: the command goes into the pipe's buffer, or the pipe is broken
SendCommandWriteFile ==
    /\ exchange.pc = "WriteFile"
    /\ exchange' = IF exchange.endpoint = "closed"
                   THEN Returned("failed to write to pipe")
                   ELSE [exchange EXCEPT !.pc = "ReadFile"]
    /\ UNCHANGED <<config, state, resumeAt, svcResumeAt, inWarningMode,
                   lastNotificationTime, nextCheckDuration, hasNotifierManager,
                   notifiers, startupNotificationSent, sessionsMonitored, snapshot,
                   checked, calls, caller, stopVars, lockVars, hostVars>>

\* ReadFile: a synchronous read, it returns when the relay has written or closed
SendCommandReadFile ==
    /\ exchange.pc = "ReadFile"
    /\ exchange.endpoint \in {"replied", "closed"}
    /\ exchange' = IF exchange.endpoint = "replied"
                   THEN Returned("response")
                   ELSE Returned("failed to read from pipe")
    /\ UNCHANGED <<config, state, resumeAt, svcResumeAt, inWarningMode,
                   lastNotificationTime, nextCheckDuration, hasNotifierManager,
                   notifiers, startupNotificationSent, sessionsMonitored, snapshot,
                   checked, calls, caller, stopVars, lockVars, hostVars>>

\* the steps of SendCommand
SendCommandStep ==
    \/ SendCommandBegin
    \/ SendCommandCreateFile
    \/ SendCommandWriteFile
    \/ SendCommandReadFile

\* PipeClient.acceptConnection and handleConnection, and the end of the relay
\* process: the relay takes these steps when it pleases, or never
RelayStep ==
    /\ exchange.pc \notin {"idle", "returned"}
    /\ \/ /\ exchange.endpoint \in {"none", "busy"}
          /\ exchange' = [exchange EXCEPT !.endpoint = "listening"]
       \/ /\ exchange.endpoint = "busy"
          /\ exchange' = [exchange EXCEPT !.endpoint = "none"]
       \/ /\ exchange.endpoint = "connected"
          /\ exchange.pc = "ReadFile"
          /\ exchange' = [exchange EXCEPT !.endpoint = "received"]
       \/ /\ exchange.endpoint = "received"
          /\ exchange' = [exchange EXCEPT !.endpoint = "replied"]
       \/ /\ exchange.endpoint \in {"listening", "connected", "received"}
          /\ exchange' = [exchange EXCEPT !.endpoint = "closed"]
    /\ UNCHANGED <<config, state, resumeAt, svcResumeAt, inWarningMode,
                   lastNotificationTime, nextCheckDuration, hasNotifierManager,
                   notifiers, startupNotificationSent, sessionsMonitored, snapshot,
                   checked, calls, caller, stopVars, lockVars, hostVars>>

InitPipe == Init /\ config \in ServiceConfigs /\ hasNotifierManager

NextPipe == SendCommandStep \/ RelayStep

\* SendCommand runs on: every step it can take it takes in the end; the relay
\* owes nothing
SpecPipe == InitPipe /\ [][NextPipe]_vars /\ WF_vars(SendCommandStep)

\* ------------------------------------- calculateNextCheckTime on its own
\* calculateNextCheckTime and GetTimeUntilThresholds are functions of the
\* three idle thresholds, the warning mode, the engine's timers and stored
\* sessions and the idle times the host reports.  Here they are applied to
\* every such input within the bounds: the states an evaluated Check can
\* leave, at ages next to the thresholds.
HintConfigs ==
    { c \in [NoUsersIdleMinutes : 0..MaxHintMinutes,
             AllDisconnectedIdleMinutes : 0..MaxHintMinutes,
             InactiveUserIdleMinutes : 0..MaxHintMinutes,
             InactiveUserWarningMinutes : {0},
             MinimumUptimeMinutes : {0}] : Validate(c) }

\* the durations next to a threshold: three seconds before it, and the
\* threshold itself
NearThresholds ==
    UNION { {k * Minute - minCheckInterval + 2, k * Minute} : k \in 1..MaxHintMinutes }

HintAges == {0, warningCheckInterval} \cup NearThresholds

HintIdleTimes == {recentActivityThreshold - warningCheckInterval} \cup NearThresholds

HintSnapshots ==
    { snap \in
        { [sessions |-> tab, idle |-> idl, uptime |-> Nil, listErr |-> FALSE] :
            tab \in SessionTables,
            idl \in [SessionIds -> {Nil} \cup { Some(t) : t \in HintIdleTimes }] } :
        /\ \A s \in SessionIds : snap.sessions[s] # WTSActive => snap.idle[s] = Nil
        /\ \A s, t \in SessionIds :
              (s < t /\ snap.sessions[s] = WTSActive /\ snap.sessions[t] = WTSActive)
                 => IdleRank(snap.idle[s]) <= IdleRank(snap.idle[t]) }

\* the engine states a Check of the snapshot can leave: the no-users timer runs
\* only with no session listed, the all-disconnected timer only with no
\* connected session, and it is the older of the two
HintStates(snap) ==
    LET sessions == GetActiveSessions(snap)
        timers == {Nil} \cup { Some(a) : a \in HintAges }
    IN  { [NewIdleState EXCEPT !.CurrentSessions = sessions,
                               !.NoUsersIdleSince = nu,
                               !.AllDisconnectedSince = ad] :
            nu \in IF sessions = {} THEN timers ELSE {Nil},
            ad \in IF \A session \in sessions : session.IsDisconnected
                   THEN timers ELSE {Nil} }

InitHint ==
    /\ config \in HintConfigs
    /\ snapshot \in HintSnapshots
    /\ state \in HintStates(snapshot)
    /\ inWarningMode \in BOOLEAN
    /\ resumeAt = 0
    /\ svcResumeAt = Some(0)
    /\ lastNotificationTime = Nil
    /\ nextCheckDuration = 0
    /\ hasNotifierManager = FALSE
    /\ notifiers = NoNotifiers
    /\ startupNotificationSent = FALSE
    /\ sessionsMonitored = FALSE
    /\ checked = NoCheck
    /\ calls = <<>>
    /\ caller = ""
    /\ exchange = NoExchange
    /\ shutdown = "running"
    /\ inFlight = FALSE
    /\ loopEntered = FALSE
    /\ processes = NoProcesses
    /\ localSessions = NotCalling
    /\ listings = NoListings
    /\ mu = Unlocked
    /\ threads = NoThreads

\* monitorLoop computes the interval to the next cycle
CalculateNext ==
    /\ caller = ""
    /\ nextCheckDuration' = calculateNextCheckTime(inWarningMode, state, snapshot)
    /\ calls' = IF inWarningMode THEN <<>>
                ELSE << Call("GetTimeUntilThresholds", {}, {}, FALSE) >>
    /\ caller' = "calculateNextCheckTime"
    /\ UNCHANGED <<config, state, resumeAt, svcResumeAt, inWarningMode,
                   lastNotificationTime, hasNotifierManager, notifiers,
                   startupNotificationSent, sessionsMonitored, snapshot, checked,
                   pipeVars, stopVars, lockVars, hostVars>>

NextHint == CalculateNext

SpecHint == InitHint /\ [][NextHint]_vars

\* ------------------------------------------------------------ properties
\* the step is an iteration of monitorLoop
CycleStep == caller' = "performMonitorCheck"

\* the last operation was an iteration of monitorLoop
Cycled == caller = "performMonitorCheck"

\* the positions of the calls of an operation among the calls of the last one
Positions(op) == { i \in 1..Len(calls) : calls[i].op = op }

NotifierOps == {"SendWarning", "SendCancellation", "SendInfo", "DismissWarning"}

\* C1: with a warning period P > 0, once the inactive-user warning is Active
\* (issued t0) and a later Check finds the condition still met without a
\* cancellation, that Check warns with timeRemaining = P - (t - t0) while
\* t - t0 < P, and asks for hibernation, without a warning, once t - t0 >= P.
C1_WarningCountdown ==
    [][(/\ CycleStep
        /\ warningPeriod > 0
        /\ state.WarningState = WarningStateActive
        /\ state.WarningIssuedAt # Nil
        /\ ~checked'.err /\ ~checked'.gated /\ ~checked'.canceled
        /\ checked'.res.Condition = IdleConditionInactiveUser)
       => /\ checked'.st.WarningIssuedAt # Nil
          /\ LET sinceWarning == Val(checked'.st.WarningIssuedAt)
             IN  /\ sinceWarning >= Val(state.WarningIssuedAt)
                 /\ IF sinceWarning < warningPeriod
                    THEN /\ checked'.res.ShouldWarn
                         /\ ~checked'.res.ShouldHibernate
                         /\ checked'.res.TimeRemaining = warningPeriod - sinceWarning
                    ELSE /\ checked'.res.ShouldHibernate
                         /\ ~checked'.res.ShouldWarn]_vars

\* a Check that hibernates exactly when the warning period has run out
C1_Witness ==
    /\ Cycled
    /\ warningPeriod > 0
    /\ checked.res.Condition = IdleConditionInactiveUser
    /\ checked.res.ShouldHibernate
    /\ checked.st.WarningIssuedAt = Some(warningPeriod)

\* C2: Check never warns for the no-users or the all-disconnected condition:
\* when one of them is met the result is shouldHibernate in the same cycle,
\* whatever the warning period; the same for the inactive-user condition when
\* the warning period is zero.
C2_NoWarningOutsideInactiveUser ==
    (checked.ran /\ ~checked.err) =>
        /\ checked.res.Condition \in {IdleConditionNoUsers, IdleConditionAllDisconnected}
              => (checked.res.ShouldHibernate /\ ~checked.res.ShouldWarn)
        /\ (checked.res.Condition = IdleConditionInactiveUser /\ warningPeriod = 0)
              => (checked.res.ShouldHibernate /\ ~checked.res.ShouldWarn)

\* the all-disconnected condition met with a warning period configured
C2_Witness ==
    /\ Cycled
    /\ warningPeriod > 0
    /\ allDisconnectedThreshold > 0
    /\ checked.res.Condition = IdleConditionAllDisconnected
    /\ checked.res.ShouldHibernate

\* some connected session of the snapshot reports an idle duration below 30 s
RecentInput(snap) ==
    \E s \in SessionIds :
        /\ snap.sessions[s] = WTSActive
        /\ snap.idle[s] # Nil
        /\ Val(snap.idle[s]) < recentActivityThreshold

\* the warning is canceled in the step and the result is "no action"
WarningCanceled ==
    /\ checked'.canceled
    /\ checked'.st.WarningState = WarningStateNone
    /\ checked'.st.WarningIssuedAt = Nil
    /\ checked'.st.WarningReason = <<>>
    /\ checked'.st.NoUsersIdleSince = Nil
    /\ checked'.st.AllDisconnectedSince = Nil
    /\ state' = checked'.st
    /\ ~checked'.res.ShouldWarn
    /\ ~checked'.res.ShouldHibernate

\* C3 (as amended): with an inactive-user threshold of at least one minute, a
\* Check that runs while WarningState is Active, is not suppressed by the
\* minimum-uptime gate and sees a connected session idle for less than 30 s
\* cancels the warning: timestamp, reason and both timers are cleared and the
\* result is neither warn nor hibernate.
C3_CancelOnActivity ==
    [][(/\ CycleStep
        /\ inactiveUserThreshold >= Minute
        /\ state.WarningState = WarningStateActive
        /\ ~snapshot'.listErr
        /\ RecentInput(snapshot')
        /\ ~checked'.gated)
       => WarningCanceled]_vars

\* C3 as stated: the same without the exception for the minimum-uptime gate
C3_AsStated ==
    [][(/\ CycleStep
        /\ inactiveUserThreshold >= Minute
        /\ state.WarningState = WarningStateActive
        /\ ~snapshot'.listErr
        /\ RecentInput(snapshot'))
       => WarningCanceled]_vars

\* a cycle that canceled the warning
C3_Witness ==
    /\ Cycled
    /\ inactiveUserThreshold >= Minute
    /\ checked.canceled
    /\ RecentInput(snapshot)
    /\ state.WarningState = WarningStateNone

\* the gate leaves the timers and the warning state as they were (their ages
\* grow with the time that passed)
Untouched(before, after) ==
    /\ after.WarningState = before.WarningState
    /\ after.WarningReason = before.WarningReason
    /\ after.IdleCondition = before.IdleCondition
    /\ (after.WarningIssuedAt = Nil) = (before.WarningIssuedAt = Nil)
    /\ (after.NoUsersIdleSince = Nil) = (before.NoUsersIdleSince = Nil)
    /\ (after.AllDisconnectedSince = Nil) = (before.AllDisconnectedSince = Nil)
    /\ after.WarningIssuedAt # Nil =>
          Val(after.WarningIssuedAt) >= Val(before.WarningIssuedAt)
    /\ after.NoUsersIdleSince # Nil =>
          Val(after.NoUsersIdleSince) >= Val(before.NoUsersIdleSince)
    /\ after.AllDisconnectedSince # Nil =>
          Val(after.AllDisconnectedSince) >= Val(before.AllDisconnectedSince)

\* C4: with a minimum uptime M > 0 and a successful uptime query, the effective
\* uptime is min(system uptime, time since resume); if it is <= M Check returns
\* condition none, no flag, timeRemaining = M - effective uptime and changes no
\* timer and no warning state; if it is > M the conditions are evaluated.
C4_MinimumUptimeGate ==
    [][(/\ CycleStep
        /\ minimumUptimeThreshold > 0
        /\ ~snapshot'.listErr
        /\ snapshot'.uptime # Nil)
       => LET effective == Min2(Val(snapshot'.uptime), resumeAt')
          IN  IF effective <= minimumUptimeThreshold
              THEN /\ checked'.gated
                   /\ checked'.res.Condition = IdleConditionNone
                   /\ ~checked'.res.ShouldWarn
                   /\ ~checked'.res.ShouldHibernate
                   /\ checked'.res.TimeRemaining = minimumUptimeThreshold - effective
                   /\ Untouched(state, state')
              ELSE ~checked'.gated]_vars

\* a Check suppressed exactly at the boundary, with a warning pending
C4_Witness ==
    /\ Cycled
    /\ checked.gated
    /\ resumeAt = minimumUptimeThreshold
    /\ checked.res.TimeRemaining = 0
    /\ state.WarningState = WarningStateActive

\* the configured threshold of an idle condition
ThresholdOf(idleCondition) ==
    CASE idleCondition = IdleConditionNoUsers -> noUsersThreshold
      [] idleCondition = IdleConditionAllDisconnected -> allDisconnectedThreshold
      [] idleCondition = IdleConditionInactiveUser -> inactiveUserThreshold
      [] OTHER -> 0

\* the hibernate action failed in the last cycle
HibernateFailed ==
    /\ Cycled
    /\ \E i \in Positions("HibernateVM") : calls[i].err

\* C6: when the hibernate action returns an error the engine state is not
\* reset, so the next cycle's Check (same sessions, same idle times) again
\* returns shouldHibernate.
C6_RetryAfterFailure ==
    [][(/\ HibernateFailed
        /\ ThresholdOf(checked.res.Condition) > 0
        /\ CycleStep
        /\ snapshot' = snapshot
        /\ ~checked'.gated)
       => checked'.res.ShouldHibernate]_vars

\* C7: a zero threshold disables its condition: Check never reports a
\* condition as met whose configured threshold is zero.
C7_ZeroThresholdDisabled ==
    checked.ran =>
        /\ noUsersThreshold = 0 => checked.res.Condition # IdleConditionNoUsers
        /\ allDisconnectedThreshold = 0 =>
              checked.res.Condition # IdleConditionAllDisconnected
        /\ inactiveUserThreshold = 0 =>
              checked.res.Condition # IdleConditionInactiveUser

\* a warning command reached a session in the last cycle
WarningDelivered ==
    /\ Cycled
    /\ \E i \in Positions("SendWarning") : calls[i].to \ calls[i].failed # {}

\* C5: after a cycle delivers a warning to a session, a shouldWarn cycle less
\* than 30 s later writes no warning command to any session.
C5_WarningThrottle ==
    [][(/\ WarningDelivered
        /\ nextCheckDuration + warningCheckInterval < notificationThrottleDuration
        /\ CycleStep
        /\ checked'.res.ShouldWarn)
       => \A i \in 1..Len(calls') :
             calls'[i].op = "SendWarning" => calls'[i].to = {}]_vars

\* C8: in every cycle in which Check returns shouldHibernate the hibernate
\* action is invoked in that cycle and no call on the notifier manager comes
\* before it.
C8_HibernateNotBlocked ==
    (Cycled /\ ~checked.err /\ checked.res.ShouldHibernate) =>
        \E i \in Positions("HibernateVM") :
            \A j \in 1..(i - 1) : calls[j].op \notin NotifierOps

\* a hibernate cycle with a notifier manager, relays and a warning showing
C8_Witness ==
    /\ Cycled
    /\ checked.res.ShouldHibernate
    /\ hasNotifierManager
    /\ DOMAIN notifiers # {}
    /\ Positions("DismissWarning") # {}

\* the hibernate action succeeded in the step
HibernatedInStep ==
    \E i \in 1..Len(calls') : calls'[i].op = "HibernateVM" /\ ~calls'[i].err

\* the step's calls hold one DismissWarning and, after it, one SendCancellation
DismissThenCancel ==
    \E i, j \in 1..Len(calls') :
        /\ i < j
        /\ calls'[i].op = "DismissWarning"
        /\ calls'[j].op = "SendCancellation"
        /\ \A k \in 1..Len(calls') :
              calls'[k].op \in {"DismissWarning", "SendCancellation"} => k \in {i, j}

NoDismissNoCancel ==
    \A k \in 1..Len(calls') :
        calls'[k].op \notin {"DismissWarning", "SendCancellation"}

\* C9 (as amended): with a notifier manager present, a cycle in which the
\* warning mode goes from true to false issues DismissWarning first and
\* SendCancellation second, whatever the dismissal's outcome, unless the
\* hibernate action succeeded, in which case it sends neither.
C9_DismissThenCancel ==
    [][(/\ CycleStep
        /\ hasNotifierManager
        /\ inWarningMode
        /\ ~inWarningMode')
       => IF HibernatedInStep THEN NoDismissNoCancel ELSE DismissThenCancel]_vars

\* C9 as stated: the same with or without a notifier manager
C9_AsStated ==
    [][(/\ CycleStep
        /\ inWarningMode
        /\ ~inWarningMode')
       => IF HibernatedInStep THEN NoDismissNoCancel ELSE DismissThenCancel]_vars

\* a cycle whose dismissal failed for a session and whose cancellation followed
C9_Witness ==
    /\ Cycled
    /\ ~inWarningMode
    /\ \E i \in Positions("DismissWarning"), j \in Positions("SendCancellation") :
          i < j /\ calls[i].failed # {}

\* C10: SendWarning, SendCancellation and SendInfo write a command only to
\* the records whose cached connection flag is connected.
C10_OnlyConnectedNotified ==
    \A i \in 1..Len(calls) :
        calls[i].op \in {"SendWarning", "SendCancellation", "SendInfo"} =>
            \A s \in calls[i].to : s \in DOMAIN notifiers /\ notifiers[s].IsConnected

\* a warning sent while the registry holds a record of a disconnected session
C10_Witness ==
    /\ \E i \in Positions("SendWarning") : calls[i].to # {}
    /\ \E s \in DOMAIN notifiers : ~notifiers[s].IsConnected

C12_FailureDoesNotStopSend ==
    \A i \in 1..Len(calls) :
        calls[i].op \in {"SendWarning", "SendCancellation", "SendInfo"} =>
            /\ calls[i].to = { s \in DOMAIN notifiers : notifiers[s].IsConnected }
            /\ calls[i].failed \subseteq calls[i].to
            /\ calls[i].err = (calls[i].failed # {})

\* a warning that failed for one session and reached another
C12_Witness ==
    \E i \in Positions("SendWarning") :
        /\ calls[i].failed # {}
        /\ calls[i].to \ calls[i].failed # {}
        /\ calls[i].err

\* the sessions of a snapshot: none listed, all of them disconnected, the
\* idle durations that could be read for the connected ones
NoneListed(snap) == \A s \in SessionIds : snap.sessions[s] = WTSAbsent

AllListedDisconnected(snap) ==
    /\ ~NoneListed(snap)
    /\ \A s \in SessionIds : snap.sessions[s] # WTSActive

ConnectedIdleTimes(snap) ==
    { Val(snap.idle[s]) :
        s \in { x \in SessionIds : snap.sessions[x] = WTSActive /\ snap.idle[x] # Nil } }

\* a Check that evaluated the idle conditions
Evaluated(chk) == chk.ran /\ ~chk.err /\ ~chk.gated

\* C17: every Check reports at most one condition, in the order no-users,
\* all-disconnected, inactive-user: no-users is reported when its timer has
\* run out with no session listed, and then no idle duration is evaluated (the
\* last-activity time is not touched); all-disconnected is reported only with
\* sessions listed and all of them disconnected; inactive-user only with a
\* connected session.
C17_OneConditionInOrder ==
    [][(CycleStep /\ Evaluated(checked'))
       => LET idleCondition == checked'.res.Condition
              noUsersMet ==
                  /\ NoneListed(snapshot')
                  /\ state.NoUsersIdleSince # Nil
                  /\ Val(state.NoUsersIdleSince) + nextCheckDuration >= noUsersThreshold
          IN  /\ noUsersMet => idleCondition = IdleConditionNoUsers
              /\ idleCondition = IdleConditionNoUsers =>
                    /\ NoneListed(snapshot')
                    /\ \E lag \in Lags :
                          checked'.st.LastActivityTime
                             = Older(state.LastActivityTime, nextCheckDuration + lag, Horizon)
              /\ idleCondition = IdleConditionAllDisconnected =>
                    AllListedDisconnected(snapshot')
              /\ idleCondition = IdleConditionInactiveUser =>
                    /\ ~NoneListed(snapshot')
                    /\ ~AllListedDisconnected(snapshot')]_vars

\* the no-users condition met while the all-disconnected threshold is
\* configured as well
C17_Witness ==
    /\ Cycled
    /\ noUsersThreshold > 0
    /\ allDisconnectedThreshold > 0
    /\ inactiveUserThreshold > 0
    /\ checked.res.Condition = IdleConditionNoUsers
    /\ NoneListed(snapshot)

\* C18: the inactive-user condition is met exactly when an idle duration could
\* be read for a connected session and the minimum of the readable ones is >=
\* the inactive-user threshold; disconnected sessions and failed queries are
\* ignored, and the last-activity time becomes now minus that minimum.
C18_MinimumIdleGoverns ==
    (Cycled /\ Evaluated(checked)) =>
        LET idles == ConnectedIdleTimes(snapshot)
        IN  /\ checked.res.Condition = IdleConditionInactiveUser
                 <=> (idles # {} /\ \A t \in idles : t >= inactiveUserThreshold)
            /\ idles # {} =>
                 /\ checked.st.LastActivityTime \in idles
                 /\ \A t \in idles : checked.st.LastActivityTime <= t

\* two connected sessions, one idle beyond the threshold and one below it,
\* next to a disconnected or unreadable one: not met
C18_Witness ==
    /\ Cycled
    /\ Evaluated(checked)
    /\ inactiveUserThreshold > 0
    /\ \E s, t \in SessionIds :
          /\ snapshot.sessions[s] = WTSActive /\ snapshot.idle[s] # Nil
          /\ snapshot.sessions[t] = WTSActive /\ snapshot.idle[t] # Nil
          /\ Val(snapshot.idle[s]) < inactiveUserThreshold
          /\ Val(snapshot.idle[t]) >= inactiveUserThreshold
    /\ checked.res.Condition = IdleConditionNone
    /\ checked.st.LastActivityTime < inactiveUserThreshold

\* C19: after every Check that evaluated the conditions, the no-users timer is
\* set only if no session was listed and the all-disconnected timer only if
\* sessions were listed and all of them disconnected.
C19_TimerOnlyWhileConditionTrue ==
    (Cycled /\ Evaluated(checked)) =>
        /\ checked.st.NoUsersIdleSince # Nil => NoneListed(snapshot)
        /\ checked.st.AllDisconnectedSince # Nil => AllListedDisconnected(snapshot)

\* C20: WarningState becomes Active only in a Check that found the
\* inactive-user condition met with a warning period > 0, and an Active state
\* always carries the warning-issued time and a reason.
C20_ActiveWarningWellFormed ==
    [][/\ (state.WarningState # WarningStateActive /\ state'.WarningState = WarningStateActive)
            => /\ CycleStep
               /\ Evaluated(checked')
               /\ checked'.res.Condition = IdleConditionInactiveUser
               /\ checked'.res.ShouldWarn
               /\ warningPeriod > 0
       /\ state'.WarningState = WarningStateActive
            => /\ state'.WarningIssuedAt # Nil
               /\ state'.WarningReason # <<>>
               /\ state'.IdleCondition = IdleConditionInactiveUser]_vars

\* a warning that has been Active for several cycles
C20_Witness ==
    /\ Cycled
    /\ state.WarningState = WarningStateActive
    /\ state.WarningIssuedAt # Nil
    /\ Val(state.WarningIssuedAt) > 0
    /\ checked.res.ShouldWarn

\* C13: no operation blocks for ever: every SendCommand returns in the end,
\* with a response or an error, whatever the relay does.
C13_SendCommandReturns ==
    (exchange.pc = "CreateFile") ~> (exchange.pc = "returned")

\* C14: once the shutdown sequence has finished, the registry is empty and
\* stays empty: no relay is running and none is spawned afterwards.
C14_NoRelayAfterShutdown ==
    shutdown = "stopped" => DOMAIN notifiers = {}

\* goroutine g is about to read or write the named memory
About(g, kinds, whats) ==
    /\ NextStep(g) # <<>>
    /\ NextStep(g)[1].kind \in kinds
    /\ NextStep(g)[1].what \in whats

\* C15: the resume time is never written while another goroutine reads or
\* writes it.
C15_ResumeTimeExclusive ==
    \A g, h \in Goroutines :
        (g # h /\ About(g, {"write"}, {"resumeAt"}))
            => ~About(h, {"read", "write"}, {"resumeAt"})

\* C16: every read of the registry happens with NotifierManager.mu held, every
\* write with it held exclusively, on every path.
C16_RegistryUnderLock ==
    \A g \in Goroutines :
        /\ About(g, {"read"}, Registry) => (g \in mu.readers \/ mu.writer = g)
        /\ About(g, {"write"}, Registry) => (mu.writer = g /\ mu.readers = {})
        /\ mu.writer # "" => mu.readers = {}

\* Stop waits for the lock while a send reads the registry under the read lock
C16_Witness ==
    /\ About("monitorLoop", {"read"}, {"IsConnected"})
    /\ "monitorLoop" \in mu.readers
    /\ About("Execute", {"Lock"}, {"mu"})
    /\ About("monitorSessions", {"Lock"}, {"mu"})

\* the engine's Reset was called in the last cycle
ResetCalled == Cycled /\ Positions("Reset") # {}

\* C21: with a no-users threshold T > 0, in a Check that evaluates the
\* conditions and finds no session: the Check that starts the no-users timer
\* and every Check before T has elapsed return no action, a Check at or after
\* T elapsed returns shouldHibernate with the condition no-users, and none of
\* them returns shouldWarn.
C21_NoUsersRun ==
    [][(/\ CycleStep
        /\ Evaluated(checked')
        /\ noUsersThreshold > 0
        /\ NoneListed(snapshot'))
       => LET res == checked'.res
              noAction == /\ res.Condition = IdleConditionNone
                          /\ ~res.ShouldHibernate
          IN  /\ ~res.ShouldWarn
              /\ state.NoUsersIdleSince = Nil => noAction
              /\ state.NoUsersIdleSince # Nil =>
                    LET elapsed == Val(checked'.st.NoUsersIdleSince)
                    IN  /\ elapsed >= Val(state.NoUsersIdleSince) + nextCheckDuration
                           \/ elapsed = Beyond(noUsersThreshold)
                        /\ elapsed < noUsersThreshold => noAction
                        /\ elapsed >= noUsersThreshold =>
                              /\ res.Condition = IdleConditionNoUsers
                              /\ res.ShouldHibernate]_vars

\* the Check that finds exactly T elapsed since the no-users timer started
C21_Witness ==
    /\ Cycled
    /\ Evaluated(checked)
    /\ noUsersThreshold > 0
    /\ NoneListed(snapshot)
    /\ checked.st.NoUsersIdleSince = Some(noUsersThreshold)
    /\ checked.res.Condition = IdleConditionNoUsers
    /\ checked.res.ShouldHibernate

\* C22: the first Check after the orchestrator's Reset never returns
\* shouldHibernate.
C22_NoRetriggerAfterReset ==
    [][(ResetCalled /\ CycleStep /\ ~checked'.err)
       => ~checked'.res.ShouldHibernate]_vars

\* C23: Reset, from any state, clears both idle timers, the warning time,
\* reason and state, the stored condition and the stored sessions and sets
\* the last-activity time to now; a second Reset at the same instant changes
\* nothing; the state the orchestrator's Reset leaves is that state.
C23_ResetClearsAll ==
    \A st \in {state, checked.st} :
        LET once == Reset(st)
        IN  /\ once.NoUsersIdleSince = Nil
            /\ once.AllDisconnectedSince = Nil
            /\ once.WarningIssuedAt = Nil
            /\ once.WarningReason = <<>>
            /\ once.WarningState = WarningStateNone
            /\ once.IdleCondition = IdleConditionNone
            /\ once.CurrentSessions = {}
            /\ once.LastActivityTime = 0
            /\ Reset(once) = once
            /\ ResetCalled => state = Reset(checked.st)

\* a Reset of a state with an expired warning, a stored condition, stored
\* sessions and an old last-activity time
C23_Witness ==
    /\ ResetCalled
    /\ checked.st.WarningState = WarningStateActive
    /\ checked.st.WarningIssuedAt # Nil
    /\ checked.st.IdleCondition = IdleConditionInactiveUser
    /\ checked.st.CurrentSessions # {}
    /\ checked.st.LastActivityTime > 0
    /\ state = Reset(checked.st)

\* the interval to the next cycle has been computed
Calculated == caller = "calculateNextCheckTime"

\* threshold minus elapsed, clamped below at zero
TimeLeft(threshold, elapsed) ==
    IF threshold - elapsed < 0 THEN 0 ELSE threshold - elapsed

\* the time left of every condition that is running and has a threshold (the
\* inactive-user condition has run for the shortest idle duration of the
\* connected sessions)
RunningConditions ==
    (IF noUsersThreshold > 0 /\ state.NoUsersIdleSince # Nil
     THEN {TimeLeft(noUsersThreshold, Val(state.NoUsersIdleSince))} ELSE {})
    \cup
    (IF allDisconnectedThreshold > 0 /\ state.AllDisconnectedSince # Nil
     THEN {TimeLeft(allDisconnectedThreshold, Val(state.AllDisconnectedSince))} ELSE {})
    \cup
    (IF inactiveUserThreshold > 0 /\ ConnectedIdleTimes(snapshot) # {}
     THEN {TimeLeft(inactiveUserThreshold,
                    CHOOSE t \in ConnectedIdleTimes(snapshot) :
                        \A u \in ConnectedIdleTimes(snapshot) : t <= u)}
     ELSE {})

\* the idle thresholds that are configured (nonzero)
ConfiguredThresholds ==
    { t \in {noUsersThreshold, allDisconnectedThreshold, inactiveUserThreshold} : t > 0 }

\* C24: GetTimeUntilThresholds returns the minimum, over the running
\* conditions with a nonzero threshold, of threshold minus elapsed clamped at
\* zero, and zero when no such condition is running.
C24_TimeUntilIsMinimum ==
    (Calculated /\ ~inWarningMode) =>
        GetTimeUntilThresholds(state, snapshot)
            = IF RunningConditions = {} THEN 0 ELSE SetMin(RunningConditions)

\* two conditions running with different times left, the first one nearer
C24_Witness ==
    /\ Calculated
    /\ ~inWarningMode
    /\ noUsersThreshold > 0 /\ state.NoUsersIdleSince # Nil
    /\ allDisconnectedThreshold > 0 /\ state.AllDisconnectedSince # Nil
    /\ TimeLeft(noUsersThreshold, Val(state.NoUsersIdleSince))
          < TimeLeft(allDisconnectedThreshold, Val(state.AllDisconnectedSince))
    /\ nextCheckDuration = TimeLeft(noUsersThreshold, Val(state.NoUsersIdleSince))
    /\ nextCheckDuration > minCheckInterval

C26_IntervalWithinSmallestThreshold ==
    (Calculated /\ ~inWarningMode) =>
        /\ nextCheckDuration >= minCheckInterval
        /\ nextCheckDuration <= SetMin(ConfiguredThresholds)

\* C27: after a panic inside a cycle was recovered, later cycles run to
\* completion: the monitor loop never waits for the registry lock while the
\* lock is held by an operation of its own that no longer runs.
C27_LoopKeepsRunning ==
    ~(/\ About("monitorLoop", {"Lock", "RLock"}, {"mu"})
      /\ mu.writer = "monitorLoop")

\* C28: once the stop signal is raised the monitor loop starts no new cycle;
\* the only cycle that ends after it is the one that had begun before it.
C28_NoCycleAfterStop ==
    [][(shutdown # "running" /\ CycleStep) => (inFlight /\ ~inFlight')]_vars

\* the sessions the host listed in the last snapshot
Listed(snap) == { s \in SessionIds : snap.sessions[s] # WTSAbsent }

\* the relay processes the last checkSessions found dead, the sessions it
\* started a relay for, and those for which the start failed
FoundDead(cs) == UNION { cs[i].failed : i \in { j \in 1..Len(cs) : cs[j].op = "isProcessAlive" } }
Spawned(cs) ==
    UNION { cs[i].to \ cs[i].failed : i \in { j \in 1..Len(cs) : cs[j].op = "startNotifier" } }
SpawnFailed(cs) == UNION { cs[i].failed : i \in { j \in 1..Len(cs) : cs[j].op = "startNotifier" } }

C31_PowerEventFrame ==
    [][\A eventType \in {PBT_APMRESUMEAUTOMATIC, PBT_APMRESUMESUSPEND, PBT_OTHER} :
          handlePowerEvent(eventType) =>
              /\ IF eventType \in {PBT_APMRESUMEAUTOMATIC, PBT_APMRESUMESUSPEND}
                 THEN resumeAt' = 0 /\ svcResumeAt' = Some(0)
                 ELSE resumeAt' = resumeAt /\ svcResumeAt' = svcResumeAt
              /\ UNCHANGED <<config, state, inWarningMode, lastNotificationTime,
                             nextCheckDuration, hasNotifierManager, notifiers,
                             startupNotificationSent, sessionsMonitored, snapshot,
                             checked, exchange, shutdown, inFlight, loopEntered,
                             processes, localSessions, listings, mu,
                             threads>>]_vars

\* a resume event handled after cycles that left an engine state behind
C31_Witness ==
    /\ caller = "handlePowerEvent"
    /\ Positions("SetResumeTime") # {}
    /\ resumeAt = 0
    /\ svcResumeAt = Some(0)
    /\ state # NewIdleState
    /\ checked # NoCheck

\* the multiple of 30 nearest to s, the upper one of two equally near
NearestHalfMinute(s) ==
    CHOOSE m \in { 30 * k : k \in 0..(s \div 30 + 1) } : m - 15 <= s /\ s < m + 15

\* a count with its unit, singular for one
Unit(n, word) == ToString(n) \o " " \o word \o (IF n = 1 THEN "" ELSE "s")

\* m seconds written as minutes and seconds
Spelled(m) ==
    IF m < 60 THEN Unit(m, "second")
    ELSE IF m % 60 = 0 THEN Unit(m \div 60, "minute")
    ELSE Unit(m \div 60, "minute") \o " " \o Unit(m % 60, "second")

\* the values the tests of FormatTimeRemaining name
FormatExamples ==
    { <<15, "30 seconds">>, <<44, "30 seconds">>, <<45, "1 minute">>,
      <<74, "1 minute">>, <<75, "1 minute 30 seconds">>, <<105, "2 minutes">> }

\* C32: FormatTimeRemaining of s whole seconds is "immediately" for s <= 0,
\* "less than 30 seconds" for s from 1 to 14, and otherwise s rounded to the
\* nearest multiple of 30 seconds (the upper one of two), written as minutes
\* and seconds with singular or plural units.
C32_FormatTimeRemaining ==
    \A i \in Positions("FormatTimeRemaining") :
        calls[i].d % HalfSecondsPerSecond = 0 =>
            LET s == calls[i].d \div HalfSecondsPerSecond
            IN  /\ calls[i].text =
                      IF s <= 0 THEN "immediately"
                      ELSE IF s <= 14 THEN "less than 30 seconds"
                      ELSE Spelled(NearestHalfMinute(s))
                /\ \A e \in FormatExamples : e[1] = s => calls[i].text = e[2]

\* 75 seconds formatted: both units, one of them singular
C32_Witness ==
    \E i \in Positions("FormatTimeRemaining") :
        /\ calls[i].d = 75 * HalfSecondsPerSecond
        /\ calls[i].text = "1 minute 30 seconds"

\* the timer a Check leaves when it found the timer t after d more seconds:
\* started now if there was none, the same instant otherwise
TimerSetOnce(t, after, threshold) ==
    IF t = Nil
    THEN after = Some(0)
    ELSE \E lag \in Lags :
            after = AdvanceOpt(t, nextCheckDuration + lag, Beyond(threshold))

\* C33: with the condition's threshold configured, a Check that evaluates the
\* conditions and finds no session (sessions,
\* all of them disconnected) after a Check that evaluated them and found
\* otherwise starts the no-users (all-disconnected) timer at its own time; a
\* Check that finds the same as the Check before it, with no hibernation in
\* between, finds the timer running and leaves it at the instant it had.
C33_TimerSetOnce ==
    [][(CycleStep /\ Evaluated(checked') /\ Evaluated(checked)) =>
          /\ (noUsersThreshold > 0 /\ NoneListed(snapshot') /\ ~NoneListed(snapshot)) =>
                checked'.st.NoUsersIdleSince = Some(0)
          /\ (/\ allDisconnectedThreshold > 0
              /\ AllListedDisconnected(snapshot')
              /\ ~AllListedDisconnected(snapshot)) =>
                checked'.st.AllDisconnectedSince = Some(0)
          /\ (/\ noUsersThreshold > 0
              /\ NoneListed(snapshot')
              /\ NoneListed(snapshot)
              /\ state = checked.st) =>
                /\ state.NoUsersIdleSince # Nil
                /\ TimerSetOnce(state.NoUsersIdleSince, checked'.st.NoUsersIdleSince,
                                noUsersThreshold)
          /\ (/\ allDisconnectedThreshold > 0
              /\ AllListedDisconnected(snapshot')
              /\ AllListedDisconnected(snapshot)
              /\ state = checked.st) =>
                /\ state.AllDisconnectedSince # Nil
                /\ TimerSetOnce(state.AllDisconnectedSince,
                                checked'.st.AllDisconnectedSince,
                                allDisconnectedThreshold)]_vars

\* C34: after a cycle that sent the cancellation notice the engine is not in
\* WarningState Active.
C34_CanceledMeansNotActive ==
    (Cycled /\ Positions("SendCancellation") # {}) =>
        state.WarningState # WarningStateActive

\* C35: a cycle that called the hibernate action, with whatever outcome,
\* sends neither DismissWarning nor SendCancellation; these are sent only in
\* cycles whose Check asked for neither a warning nor hibernation.
C35_NoCancelWhenHibernating ==
    [][CycleStep =>
          /\ (\E i \in 1..Len(calls') : calls'[i].op = "HibernateVM") => NoDismissNoCancel
          /\ (checked'.res.ShouldWarn \/ checked'.res.ShouldHibernate) => NoDismissNoCancel]_vars

\* C36: with a warning period P > 0, a Check returns shouldHibernate for the
\* inactive-user condition only when the warning time it found set, and did
\* not cancel, lies at least P back. The warning time is set only by a Check
\* that returns shouldWarn, to that Check's time, and stays at that instant
\* until a cancellation, a warning reset or a Reset clears it: so a Check
\* that returned shouldWarn lies at least P before the hibernating one, with
\* none of the three in between.
C36_HibernateOnlyAfterWarning ==
    [][(CycleStep /\ Evaluated(checked') /\ warningPeriod > 0) =>
          LET before == state.WarningIssuedAt
              after == checked'.st.WarningIssuedAt
              res == checked'.res
              kept == \E lag \in Lags :
                          after = AdvanceOpt(before, nextCheckDuration + lag,
                                             Beyond(warningPeriod))
          IN  /\ (before = Nil /\ after # Nil) => (res.ShouldWarn /\ after = Some(0))
              /\ (before # Nil /\ after # Nil) =>
                    \/ kept /\ ~checked'.canceled
                    \/ res.ShouldWarn /\ after = Some(0)
              /\ (res.ShouldHibernate /\ res.Condition = IdleConditionInactiveUser) =>
                    /\ before # Nil
                    /\ ~checked'.canceled
                    /\ kept
                    /\ Val(after) >= warningPeriod
                    /\ state.WarningState = WarningStateActive]_vars

\* the Check that hibernates for the inactive-user condition after the warning
C36_Witness ==
    /\ Cycled
    /\ Evaluated(checked)
    /\ warningPeriod > 0
    /\ checked.res.ShouldHibernate
    /\ checked.res.Condition = IdleConditionInactiveUser
    /\ Val(checked.st.WarningIssuedAt) = warningPeriod
    /\ state.WarningIssuedAt = Nil

\* C37: whenever the engine's WarningState is Active its stored idle condition
\* is inactive-user, in the state a Check leaves and in the state the cycle
\* leaves; a Check that cancels a warning found that condition stored.
C37_ActiveOnlyForInactiveUser ==
    /\ state.WarningState = WarningStateActive =>
          state.IdleCondition = IdleConditionInactiveUser
    /\ checked.st.WarningState = WarningStateActive =>
          checked.st.IdleCondition = IdleConditionInactiveUser
    /\ checked.canceled => RecentInput(snapshot)

\* an Active warning that has outlived a Check with every threshold configured
C37_Witness ==
    /\ Cycled
    /\ state.WarningState = WarningStateActive
    /\ state.WarningIssuedAt # Nil
    /\ Val(state.WarningIssuedAt) > 0
    /\ noUsersThreshold > 0
    /\ allDisconnectedThreshold > 0

\* C38: the result of every Check, the gated one included, is consistent:
\* never shouldWarn together with shouldHibernate; shouldWarn only for the
\* inactive-user condition with a warning period configured; shouldHibernate
\* only with a condition other than none; condition none with neither flag.
C38_ResultConsistent ==
    (checked.ran /\ ~checked.err) =>
        LET res == checked.res
        IN  /\ ~(res.ShouldWarn /\ res.ShouldHibernate)
            /\ res.ShouldWarn =>
                  /\ res.Condition = IdleConditionInactiveUser
                  /\ warningPeriod > 0
            /\ res.ShouldHibernate => res.Condition # IdleConditionNone
            /\ res.Condition = IdleConditionNone =>
                  (~res.ShouldWarn /\ ~res.ShouldHibernate)

\* a warning repeated during the warning period, in a configuration in which
\* the other two conditions hibernate at once
C38_Witness ==
    /\ checked.ran
    /\ ~checked.err
    /\ checked.res.ShouldWarn
    /\ checked.res.TimeRemaining > 0
    /\ checked.res.TimeRemaining < warningPeriod
    /\ noUsersThreshold > 0
    /\ allDisconnectedThreshold > 0

\* C39: for every session the service holds one process handle if the
\* registry has a record for the session and none otherwise, and at most that
\* one relay process runs: no relay runs without a record, no two relays run
\* for one session, and a record is replaced only when the process and the
\* handle of the old one are gone.
C39_OneRelayPerRecord ==
    \A s \in SessionIds :
        /\ processes[s].handles = IF s \in DOMAIN notifiers THEN 1 ELSE 0
        /\ processes[s].running <= processes[s].handles

\* a relay found dead was replaced while the relay of another session runs on
C39_Witness ==
    /\ caller = "checkSessions"
    /\ \E s \in FoundDead(calls) :
          /\ s \in Spawned(calls)
          /\ processes[s] = [running |-> 1, handles |-> 1]
    /\ \E t \in DOMAIN notifiers : t \notin Spawned(calls) /\ processes[t].running = 1

\* C40: checkSessions never applies a list of sessions older than one already
\* applied: once the calls of monitorSessions and of monitorLoop have returned,
\* the registry holds exactly the sessions of the list taken last, each with
\* that list's connection state.
C40_RegistryMatchesLatestListing ==
    (/\ listings.count > 0
     /\ \A g \in Callers : localSessions[g].pc \in {"idle", "done"}) =>
        /\ DOMAIN notifiers = Listed(listings.latest)
        /\ \A s \in DOMAIN notifiers :
              notifiers[s].IsConnected = (listings.latest.sessions[s] = WTSActive)

====
